---- MODULE Spec2Model ----
(***************************************************************************)
(* Model of the LLM server of book-worm: the two model managers            *)
(* (LLMModelManager, EmbeddingModelManager), the request handlers that     *)
(* call them from the asyncio event loop, and the download coordinator of  *)
(* ModelService with its executor worker threads.                          *)
(*                                                                         *)
(* Scheduling: every caller of a manager method in the repository is an    *)
(* `async def` handler whose body contains no `await`; such a body runs on *)
(* the single event-loop thread from its first to its last statement.  The *)
(* variable loop names the task that owns that thread.  The only real      *)
(* suspension points are the hand-over from a handler's response to its    *)
(* background task and `await loop.run_in_executor(None, _download)`.      *)
(*                                                                         *)
(* The last sections model the backend: the retry loop around the          *)
(* embedding request, the SessionManager with its per-context variable,    *)
(* and the analysis thread of an uploaded document with the listing that   *)
(* reads its files.                                                        *)
(***************************************************************************)
EXTENDS Integers, FiniteSets, Sequences, TLC

\* ---- bounds of the model ------------------------------------------------
NumTasks == 2
NumPaths == 2
MaxCalls == 3
MaxTexts == 3
MaxToolCalls == 2
MaxMessages == 2
MaxTools == 2
MaxChunks == 1

Tasks == 1..NumTasks
Paths == 1..NumPaths
Classes == {"chat", "embedding"}
NoTask == 0
NoHandle == 0

VARIABLES
  cache,   \* cache[c][p]: the handle _models[p] of class c, NoHandle if absent
  inst,    \* inst[c]: cls._instance of class c is not None
  built,   \* built[c][p]: number of Llama(...) constructions of path p of
           \* class c that returned; the n-th one yields handle n of the path
  loop,    \* the task running on the event-loop thread, NoTask if it is free
  task,    \* task[t]: one call (or request) issued by a caller
  hist,    \* hist[c][p]: history of path p of class c since its last removal
  calls,   \* number of calls issued so far
  disk,    \* disk[c]: the .gguf files under the model directory of class c,
           \* each with its subdirectory and its stem
  active,  \* ModelService._active_downloads: filename -> DownloadRecord
  last,    \* the call or request that ended most recently, with its outcome
  lock,    \* ModelService._downloads_lock: the thread inside a `with` block
  sessions,          \* SessionManager.sessions: session id -> document name
  _session_context,  \* the ContextVar, one value per execution context
  uuid,    \* number of session ids uuid4 has issued; the n-th id is n
  ask,     \* ask[t]: the /ask request that execution context t runs
  data,    \* the folder 0_data: document name -> files in its folder
  analysis \* analysis[d]: the pre-analysis thread of document d

vars == <<cache, inst, built, loop, task, hist, calls, disk, active, last,
          lock, sessions, _session_context, uuid, ask, data, analysis>>

\* the state of the backend service, which the LLM server does not touch
backend == <<sessions, _session_context, uuid, ask, data, analysis>>

\* no thread holds the lock
Unlocked == [thread |-> "none", task |-> NoTask]

\* a request of the backend that has not arrived
IdleAsk == [pc |-> "idle", document_name |-> "", session_id |-> 0]

\* the backend after start: no session, no context has a current session,
\* 0_data has no folder and no analysis thread runs
InitBackend ==
  /\ sessions = <<>>
  /\ _session_context = [t \in Tasks |-> {}]
  /\ uuid = 0
  /\ ask = [t \in Tasks |-> IdleAsk]
  /\ data = <<>>
  /\ analysis = <<>>

EmptyCache == [c \in Classes |-> [p \in Paths |-> NoHandle]]

\* a task slot that holds no call; snap is the cache when the call began;
\* wk, n, out: state of the executor worker of a download, number of calls
\* of hf_hub_download it made, and how the call ended; scan: the entries a
\* listing collected from the directory; due: the downloads that were
\* acknowledged and still transferring when a listing request arrived
IdleTask ==
  [pc |-> "idle", kind |-> "none", cls |-> "chat", path |-> 1,
   h |-> NoHandle, snap |-> EmptyCache, repo |-> "", fmt |-> "float",
   wk |-> "none", n |-> 0, out |-> "none", scan |-> {}, due |-> {}]

\* arg: the payload of the request (a sequence of one record); native: the
\* calls the handler made on the llama handle, in order; res: the payload of
\* the response; usage: the usage of an embedding response
NoLast ==
  [kind |-> "none", cls |-> "chat", path |-> 1, st |-> "none", val |-> 0,
   status |-> 0, out |-> "none", models |-> {}, arg |-> <<>>,
   native |-> <<>>, res |-> <<>>,
   usage |-> [prompt_tokens |-> 0, total_tokens |-> 0]]

\* the record of call t when it ends with outcome st, value val and HTTP
\* status
Ended(t, st, val, status) ==
  [kind |-> task[t].kind, cls |-> task[t].cls, path |-> task[t].path,
   st |-> st, val |-> val, status |-> status, out |-> task[t].out,
   models |-> {}, arg |-> <<>>, native |-> <<>>, res |-> <<>>,
   usage |-> [prompt_tokens |-> 0, total_tokens |-> 0]]

\* builds, gets, rets: constructions, returns of get_model and the handles
\* returned since the entry was last removed;
\* conc: two get_model calls were in flight together while the path was
\* unseen; last: the last operation on the path that completed
FreshHist ==
  [builds |-> 0, gets |-> 0, rets |-> {}, conc |-> FALSE,
   last |-> "none"]

\* hist of a path after its entry was removed by `op`
Removed(hr, op) ==
  [builds |-> 0, gets |-> 0, rets |-> {}, conc |-> FALSE,
   last |-> op]

\* ---- the managers (chat_model.py, embedding_model.py) -------------------

\* is_loaded: model_path in self._models
is_loaded_any(c, p) == \E q \in Paths : cache[c][q] # NoHandle

is_loaded(c, p) == cache[c][p] # NoHandle

\* list_loaded_models: list(self._models.keys())
list_loaded_models(c) == {p \in Paths : cache[c][p] # NoHandle}

\* the suspension points of the coroutines that run on the event loop
AwaitsOnLoad(label) == label \in {"bg_start", "dl_wait", "g_construct"}

AwaitsWhileUsing(label) == label \in {"bg_start", "dl_wait", "using"}

Awaits(label) == label \in {"bg_start", "dl_wait"}

\* task t may execute its next statement on the event-loop thread
MayRun(t) == loop = t \/ (loop = NoTask /\ Awaits(task[t].pc))

\* owner of the event-loop thread after a task moved to label
LoopAfter(t, label) ==
  IF label = "idle" \/ Awaits(label) THEN NoTask ELSE t

\* an exception that leaves get_model inside create_embeddings is answered
\* 400 by `except ValueError` and 500 by `except Exception`; the type of the
\* exception is the library's choice
ErrorStatus(k) == IF k = "embeddings" THEN {400, 500} ELSE {0}

\* the manager methods whose callers wait for the event loop
ManagerKinds == {"get_model", "unload_model"}

\* the event loop is free and picks call t of kind k, which was waiting
Starts(t, k) ==
  /\ task[t].pc = "pending"
  /\ task[t].kind = k
  /\ loop = NoTask

\* a new call takes the first free slot (callers are interchangeable); the
\* handler task of a request is created by the event loop itself, between
\* the steps of the handlers it runs
FreeSlot(t) ==
  /\ task[t].pc = "idle"
  /\ \A u \in Tasks : u < t => task[u].pc # "idle"
  /\ loop = NoTask

\* the kinds of call that go through get_model
Loads(k) == k \in {"get_model", "embeddings"}

\* another call that goes through get_model(p) of class c is in flight
InFlight(t, c, p) ==
  \E u \in Tasks \ {t} :
    /\ task[u].pc # "idle"
    /\ Loads(task[u].kind)
    /\ task[u].cls = c
    /\ task[u].path = p

\* hist when call t of kind k arrives: a second get_model call in flight for
\* a path that nobody has loaded yet is recorded in conc
Arrived(t, k, c, p) ==
  IF Loads(k) /\ InFlight(t, c, p) /\ ~is_loaded(c, p) /\ hist[c][p].builds = 0
  THEN [hist EXCEPT ![c][p].conc = TRUE]
  ELSE hist

\* a caller issues a call of a manager method; it waits for the event loop
Call(t, k, c, p) ==
  /\ FreeSlot(t)
  /\ calls < MaxCalls
  /\ calls' = calls + 1
  /\ task' = [task EXCEPT ![t] =
       [IdleTask EXCEPT !.pc = "pending", !.kind = k, !.cls = c, !.path = p]]
  /\ hist' = Arrived(t, k, c, p)
  /\ UNCHANGED backend
  /\ UNCHANGED <<lock, cache, inst, built, loop, disk, active, last>>

\* get_model, line 31: if model_path not in self._models
GetHitNever(c, p) == FALSE

GetHit(c, p) == is_loaded(c, p)

\* where get_model goes after the membership test
Checked(c, p) == IF GetHit(c, p) THEN "g_return" ELSE "g_construct"

\* load_chat_model / load_embedding_model, lines 76-87: the event loop runs
\* the caller, which instantiates the manager and enters get_model
GetCheck(t) ==
  LET c == task[t].cls  p == task[t].path IN
  /\ Starts(t, "get_model")
  /\ task' = [task EXCEPT ![t].pc = Checked(c, p), ![t].snap = cache]
  /\ inst' = [inst EXCEPT ![c] = TRUE]
  /\ loop' = LoopAfter(t, Checked(c, p))
  /\ UNCHANGED backend
  /\ UNCHANGED <<lock, cache, built, hist, calls, disk, active, last>>

\* the cache after Llama(...) raised inside get_model: the exception leaves
\* line 33 before the assignment to self._models[model_path]
FailedLoadPartial(c, p) == [cache EXCEPT ![c][p] = built[c][p] + 1]

FailedLoad(c, p) == cache

\* get_model, lines 33-40: Llama(model_path=..., ...) returns a new handle or
\* raises; an exception leaves get_model before the assignment to the cache
GetConstruct(t) ==
  LET c == task[t].cls  p == task[t].path IN
  /\ task[t].pc = "g_construct"
  /\ MayRun(t)
  /\ \E ok \in BOOLEAN :
       IF ok
       THEN /\ built' = [built EXCEPT ![c][p] = @ + 1]
            /\ task' = [task EXCEPT ![t].pc = "g_insert",
                                    ![t].h = built[c][p] + 1]
            /\ hist' = [hist EXCEPT ![c][p].builds = @ + 1]
            /\ loop' = LoopAfter(t, "g_insert")
            /\ UNCHANGED <<cache, last>>
       ELSE /\ task' = [task EXCEPT ![t] = IdleTask]
            /\ \E s \in ErrorStatus(task[t].kind) :
                 last' = Ended(t, "error", 0, s)
            /\ cache' = FailedLoad(c, p)
            /\ loop' = LoopAfter(t, "idle")
            /\ UNCHANGED <<built, hist>>
  /\ UNCHANGED backend
  /\ UNCHANGED <<lock, inst, calls, disk, active>>

\* the cache after get_model stored handle h under path p
InsertEvicting(c, p, h) ==
  [cache EXCEPT ![c] = [q \in Paths |-> IF q = p THEN h ELSE NoHandle]]

Inserted(c, p, h) == [cache EXCEPT ![c][p] = h]

\* get_model, line 33: self._models[model_path] = <the new handle>
GetInsert(t) ==
  LET c == task[t].cls  p == task[t].path IN
  /\ task[t].pc = "g_insert"
  /\ MayRun(t)
  /\ cache' = Inserted(c, p, task[t].h)
  /\ task' = [task EXCEPT ![t].pc = "g_return"]
  /\ loop' = LoopAfter(t, "g_return")
  /\ UNCHANGED backend
  /\ UNCHANGED <<lock, inst, built, hist, calls, disk, active, last>>

\* get_model, line 42: return self._models[model_path] (KeyError if absent);
\* the caller then holds the handle for the rest of its request
GetReturn(t) ==
  LET c == task[t].cls  p == task[t].path IN
  /\ task[t].pc = "g_return"
  /\ MayRun(t)
  /\ IF is_loaded(c, p)
     THEN /\ task' = [task EXCEPT ![t].pc = "using", ![t].h = cache[c][p]]
          /\ hist' = [hist EXCEPT ![c][p].gets = @ + 1,
                                  ![c][p].rets = @ \cup {cache[c][p]},
                                  ![c][p].last = "get_model"]
          /\ loop' = LoopAfter(t, "using")
          /\ UNCHANGED last
     ELSE /\ task' = [task EXCEPT ![t] = IdleTask]
          /\ \E s \in ErrorStatus(task[t].kind) :
               last' = Ended(t, "error", 0, s)
          /\ loop' = LoopAfter(t, "idle")
          /\ UNCHANGED hist
  /\ UNCHANGED backend
  /\ UNCHANGED <<lock, cache, inst, built, calls, disk, active>>

\* the caller of load_chat_model / load_embedding_model is done with the
\* handle it was given and drops its reference
Release(t) ==
  /\ task[t].pc = "using"
  /\ task[t].kind = "get_model"
  /\ MayRun(t)
  /\ task' = [task EXCEPT ![t] = IdleTask]
  /\ last' = Ended(t, "ok", task[t].h, 0)
  /\ loop' = LoopAfter(t, "idle")
  /\ UNCHANGED backend
  /\ UNCHANGED <<lock, cache, inst, built, hist, calls, disk, active>>

\* unload_model, line 46 (and line 58): if model_path in self._models
UnloadCheck(t) ==
  LET c == task[t].cls  p == task[t].path IN
  /\ Starts(t, "unload_model")
  /\ IF is_loaded(c, p)
     THEN /\ task' = [task EXCEPT ![t].pc = "u_del", ![t].snap = cache]
          /\ loop' = LoopAfter(t, "u_del")
          /\ UNCHANGED <<hist, last>>
     ELSE /\ task' = [task EXCEPT ![t] = IdleTask]
          /\ last' = Ended(t, "ok", 0, 0)
          /\ hist' = [hist EXCEPT ![c][p].last = "unload_model"]
          /\ loop' = LoopAfter(t, "idle")
  /\ UNCHANGED backend
  /\ UNCHANGED <<lock, cache, inst, built, calls, disk, active>>

\* the cache after unload_model deleted the entry of path p
DeletedAll(c, p) == [cache EXCEPT ![c] = [q \in Paths |-> NoHandle]]

Deleted(c, p) == [cache EXCEPT ![c][p] = NoHandle]

\* unload_model, lines 48-57: model = self._models[p]; del model;
\* del self._models[p]; gc.collect(); return True
UnloadDel(t) ==
  LET c == task[t].cls  p == task[t].path IN
  /\ task[t].pc = "u_del"
  /\ MayRun(t)
  /\ IF is_loaded(c, p)
     THEN /\ cache' = Deleted(c, p)
          /\ last' = Ended(t, "ok", 1, 0)
          /\ hist' = [hist EXCEPT ![c][p] = Removed(@, "unload_model")]
     ELSE /\ last' = Ended(t, "error", 0, 0)
          /\ UNCHANGED <<cache, hist>>
  /\ task' = [task EXCEPT ![t] = IdleTask]
  /\ loop' = LoopAfter(t, "idle")
  /\ UNCHANGED backend
  /\ UNCHANGED <<lock, inst, built, calls, disk, active>>

\* is_loaded, lines 60-62, called from a handler: one read of the cache
IsLoadedCall(c, p) ==
  /\ loop = NoTask
  /\ calls < MaxCalls
  /\ calls' = calls + 1
  /\ last' = [NoLast EXCEPT !.kind = "is_loaded", !.cls = c, !.path = p,
                            !.st = "ok",
                            !.val = IF is_loaded(c, p) THEN 1 ELSE 0]
  /\ UNCHANGED backend
  /\ UNCHANGED <<lock, cache, inst, built, loop, task, hist, disk, active>>

\* reset (classmethod), lines 68-73: if cls._instance:
\* cls._instance._models.clear(); cls._instance = None
ResetCall(c) ==
  /\ loop = NoTask
  /\ calls < MaxCalls
  /\ calls' = calls + 1
  /\ IF inst[c]
     THEN /\ cache' = [cache EXCEPT ![c] = [q \in Paths |-> NoHandle]]
          /\ hist' = [hist EXCEPT ![c] =
                        [q \in Paths |-> IF is_loaded(c, q)
                                         THEN Removed(hist[c][q], "reset")
                                         ELSE [hist[c][q] EXCEPT !.last = "reset"]]]
     ELSE UNCHANGED <<cache, hist>>
  /\ inst' = [inst EXCEPT ![c] = FALSE]
  /\ last' = [NoLast EXCEPT !.kind = "reset", !.cls = c, !.st = "ok"]
  /\ UNCHANGED backend
  /\ UNCHANGED <<lock, built, loop, task, disk, active>>

Init ==
  /\ lock = Unlocked
  /\ InitBackend
  /\ cache = EmptyCache
  /\ inst = [c \in Classes |-> TRUE]
  /\ built = [c \in Classes |-> [p \in Paths |-> 0]]
  /\ loop = NoTask
  /\ task = [t \in Tasks |-> IdleTask]
  /\ hist = [c \in Classes |-> [p \in Paths |-> FreshHist]]
  /\ calls = 0
  /\ disk = [c \in Classes |-> {}]
  /\ active = <<>>
  /\ last = NoLast

Next ==
  \/ \E t \in Tasks, k \in ManagerKinds, c \in Classes, p \in Paths :
       Call(t, k, c, p)
  \/ \E t \in Tasks : GetCheck(t)
  \/ \E t \in Tasks : GetConstruct(t)
  \/ \E t \in Tasks : GetInsert(t)
  \/ \E t \in Tasks : GetReturn(t)
  \/ \E t \in Tasks : Release(t)
  \/ \E t \in Tasks : UnloadCheck(t)
  \/ \E t \in Tasks : UnloadDel(t)
  \/ \E c \in Classes, p \in Paths : IsLoadedCall(c, p)
  \/ \E c \in Classes : ResetCall(c)

Spec == Init /\ [][Next]_vars

\* ---- the HTTP server (controllers, ModelService) ------------------------

\* ModelService.DOWNLOADABLE_CHAT_MODELS: repository -> GGUF file
DOWNLOADABLE_CHAT_MODELS ==
  ("unsloth/Qwen3-4B-Instruct-2507-GGUF" :> "Qwen3-4B-Instruct-2507-Q4_K_M.gguf") @@
  ("lmstudio-community/Qwen3-30B-A3B-Instruct-2507-GGUF" :>
     "Qwen3-30B-A3B-Instruct-2507-Q3_K_L.gguf")

\* ModelService.DOWNLOADABLE_EMBEDDING_MODELS: repository -> GGUF file
DOWNLOADABLE_EMBEDDING_MODELS ==
  ("Qwen/Qwen3-Embedding-4B-GGUF" :> "Qwen3-Embedding-4B-Q4_K_M.gguf") @@
  ("Qwen/Qwen3-Embedding-8B-GGUF" :> "Qwen3-Embedding-8B-Q4_K_M.gguf")

\* a repository that is in neither table
UnlistedRepository == "some-owner/unlisted-GGUF"

Repositories ==
  DOMAIN DOWNLOADABLE_CHAT_MODELS \cup DOMAIN DOWNLOADABLE_EMBEDDING_MODELS
    \cup {UnlistedRepository}

\* the place of the catalog files among the paths of their class directory:
\* target_dir / filename is path PathOfFile[filename] of that class
PathOfFile ==
  ("Qwen3-4B-Instruct-2507-Q4_K_M.gguf" :> 1) @@
  ("Qwen3-30B-A3B-Instruct-2507-Q3_K_L.gguf" :> 2) @@
  ("Qwen3-Embedding-4B-Q4_K_M.gguf" :> 1) @@
  ("Qwen3-Embedding-8B-Q4_K_M.gguf" :> 2)

\* download_model_async, lines 246-255: model type and filename of a repository
ModelTypeOf(r) ==
  IF r \in DOMAIN DOWNLOADABLE_CHAT_MODELS THEN "chat" ELSE "embedding"

FilenameOf(r) ==
  IF r \in DOMAIN DOWNLOADABLE_CHAT_MODELS
  THEN DOWNLOADABLE_CHAT_MODELS[r] ELSE DOWNLOADABLE_EMBEDDING_MODELS[r]

\* validate_repository: the repository is a key of one of the two tables
validate_repository_chat(r) == r \in DOMAIN DOWNLOADABLE_CHAT_MODELS

validate_repository_any(r) == TRUE

validate_repository(r) ==
  r \in DOMAIN (DOWNLOADABLE_CHAT_MODELS @@ DOWNLOADABLE_EMBEDDING_MODELS)

\* a .gguf file of a class directory: dir is "" for the directory itself
\* and the name of a subdirectory otherwise (rglob descends into them)
File(d, p) == [dir |-> d, stem |-> p]

\* embedding_model_exists: rglob finds a .gguf file with that stem under
\* models/embed
embedding_model_exists_anywhere(p) ==
  \E c \in Classes : \E f \in disk[c] : f.stem = p

embedding_model_exists(p) == \E f \in disk["embedding"] : f.stem = p

\* chat_model_exists: rglob finds a .gguf file with that stem under
\* models/chat
chat_model_exists(p) == \E f \in disk["chat"] : f.stem = p

HttpKinds ==
  {"embeddings", "chat_completion", "load", "unload", "download", "list"}

\* the downloads of class c that were answered 202 and whose transfer has not
\* ended
Acked(c) ==
  {u \in Tasks : /\ task[u].kind = "download"
                 /\ task[u].pc \in {"bg_start", "dl_wait"}
                 /\ task[u].out = "none"
                 /\ ModelTypeOf(task[u].repo) = c}

\* a client sends a request; FastAPI queues the handler on the event loop
Request(t, k, c, p, f, r) ==
  /\ FreeSlot(t)
  /\ calls < MaxCalls
  /\ calls' = calls + 1
  /\ task' = [task EXCEPT ![t] =
       [IdleTask EXCEPT !.pc = "pending", !.kind = k, !.cls = c, !.path = p,
                        !.fmt = f, !.repo = r,
                        !.due = IF k = "list" THEN Acked(c) ELSE {}]]
  /\ hist' = Arrived(t, k, c, p)
  /\ UNCHANGED backend
  /\ UNCHANGED <<lock, cache, inst, built, loop, disk, active, last>>

\* create_embeddings, lines 101-119: reject base64 (400), look the model up
\* (404), then load_embedding_model(model_path), which enters get_model
Base64RejectedIfFound(t) ==
  task[t].fmt = "base64" /\ embedding_model_exists(task[t].path)

Base64Rejected(t) == task[t].fmt = "base64"

CreateEmbeddings(t) ==
  /\ task[t].pc = "pending"
  /\ task[t].kind = "embeddings"
  /\ loop = NoTask
  /\ IF Base64Rejected(t)
     THEN /\ task' = [task EXCEPT ![t] = IdleTask]
          /\ last' = Ended(t, "error", 0, 400)
          /\ UNCHANGED <<loop, inst>>
     ELSE IF ~embedding_model_exists(task[t].path)
     THEN /\ task' = [task EXCEPT ![t] = IdleTask]
          /\ last' = Ended(t, "error", 0, 404)
          /\ UNCHANGED <<loop, inst>>
     ELSE /\ task' = [task EXCEPT ![t].pc = Checked("embedding", task[t].path),
                                  ![t].snap = cache]
          /\ loop' = LoopAfter(t, Checked("embedding", task[t].path))
          /\ inst' = [inst EXCEPT !["embedding"] = TRUE]
          /\ UNCHANGED last
  /\ UNCHANGED backend
  /\ UNCHANGED <<lock, cache, built, hist, calls, disk, active>>

\* the texts of the requests
Texts == {"a", "b"}

\* EmbeddingRequest.input: str | List[str]
StrInput(x) == [kind |-> "str", str |-> x, list |-> <<>>]

ListInput(l) == [kind |-> "list", str |-> "", list |-> l]

ListsOfTexts == UNION {[1..n -> Texts] : n \in 0..MaxTexts}

EmbeddingInputs ==
  {StrInput(x) : x \in Texts} \cup {ListInput(l) : l \in ListsOfTexts}

\* generate_embeddings / count_tokens: if isinstance(texts, str): texts = [texts]
Normalized(texts) == IF texts.kind = "str" THEN <<texts.str>> ELSE texts.list

\* what the llama handle does when embed or tokenize is called with a text:
\* it returns, or raises an exception of some type
NoFailure ==
  [embed |-> [x \in Texts |-> "ok"], tokenize |-> [x \in Texts |-> "ok"]]

Exceptions == {"ValueError", "RuntimeError"}

Handles ==
  {NoFailure}
    \cup {[NoFailure EXCEPT !.embed[x] = e] : x \in Texts, e \in Exceptions}
    \cup {[NoFailure EXCEPT !.tokenize[x] = e] : x \in Texts, e \in Exceptions}

\* the vector model.embed(text) returns and the tokens model.tokenize(text)
\* returns
Vector(x) == [of |-> x]

Tokens(x) == IF x = "a" THEN <<1, 2>> ELSE <<3, 4, 5>>

\* generate_embeddings, lines 31-37: the loop from item i on, with the
\* vectors collected and the native calls made so far
RECURSIVE EmbedFrom(_, _, _, _, _)
EmbedFrom(model, texts, i, embeddings, made) ==
  IF i > Len(texts)
  THEN [exc |-> "none", value |-> embeddings, native |-> made]
  ELSE LET call == [op |-> "embed", text |-> texts[i]] IN
       IF model.embed[texts[i]] # "ok"
       THEN [exc |-> model.embed[texts[i]], value |-> <<>>,
             native |-> Append(made, call)]
       ELSE EmbedFrom(model, texts, i + 1,
                      Append(embeddings, Vector(texts[i])), Append(made, call))

\* EmbeddingService.generate_embeddings
generate_embeddings_backwards(model, texts) ==
  LET l == Normalized(texts) IN
  EmbedFrom(model, [i \in 1..Len(l) |-> l[Len(l) + 1 - i]], 1, <<>>, <<>>)

generate_embeddings(model, texts) ==
  EmbedFrom(model, Normalized(texts), 1, <<>>, <<>>)

\* count_tokens, lines 54-59: the loop from item i on
RECURSIVE CountFrom(_, _, _, _, _)
CountFrom(model, texts, i, total_tokens, made) ==
  IF i > Len(texts)
  THEN [exc |-> "none", value |-> total_tokens, native |-> made]
  ELSE LET call == [op |-> "tokenize", text |-> texts[i]] IN
       IF model.tokenize[texts[i]] # "ok"
       THEN [exc |-> model.tokenize[texts[i]], value |-> 0,
             native |-> Append(made, call)]
       ELSE CountFrom(model, texts, i + 1,
                      total_tokens + Len(Tokens(texts[i])), Append(made, call))

\* EmbeddingService.count_tokens
count_tokens_items(model, texts) ==
  [CountFrom(model, Normalized(texts), 1, 0, <<>>) EXCEPT
     !.value = Len(Normalized(texts))]

count_tokens(model, texts) == CountFrom(model, Normalized(texts), 1, 0, <<>>)

\* create_embeddings, lines 128-136: one EmbeddingData per vector, with its
\* position as index
EmbeddingData(embeddings) ==
  [i \in 1..Len(embeddings) |-> [index |-> i - 1, embedding |-> embeddings[i]]]

\* create_embeddings, lines 144-147: EmbeddingUsage(prompt_tokens=prompt_tokens,
\* total_tokens=prompt_tokens)
EmbeddingUsage(prompt_tokens) ==
  [prompt_tokens |-> prompt_tokens, total_tokens |-> prompt_tokens]

\* create_embeddings, lines 151-157: the status of an exception that is not
\* an HTTPException
StatusOf(exc) == IF exc = "ValueError" THEN 400 ELSE 500

\* create_embeddings, lines 121-157 for a request with payload texts on a
\* handle that behaves as model: generate_embeddings, then count_tokens,
\* then the response, or the answer to the exception one of them raised
Response(t, texts, model) ==
  LET g == generate_embeddings(model, texts)
      c == count_tokens(model, texts)
  IN IF g.exc # "none"
     THEN [Ended(t, "error", 0, StatusOf(g.exc)) EXCEPT
             !.arg = <<texts>>, !.native = g.native]
     ELSE IF c.exc # "none"
     THEN [Ended(t, "error", 0, StatusOf(c.exc)) EXCEPT
             !.arg = <<texts>>, !.native = g.native \o c.native]
     ELSE [Ended(t, "ok", task[t].h, 200) EXCEPT
             !.arg = <<texts>>, !.native = g.native \o c.native,
             !.res = EmbeddingData(g.value),
             !.usage = EmbeddingUsage(c.value)]

\* the handles of the server specifications: embed returns, or raises an
\* exception of one of the two kinds
ServerText == "a"

ServerHandles ==
  {NoFailure} \cup {[NoFailure EXCEPT !.embed[ServerText] = e] : e \in Exceptions}

\* create_embeddings, lines 121-157, in the server specifications: the
\* request carries one text
GenerateEmbeddings(t) ==
  /\ task[t].pc = "using"
  /\ task[t].kind = "embeddings"
  /\ MayRun(t)
  /\ \E model \in ServerHandles : last' = Response(t, StrInput(ServerText), model)
  /\ task' = [task EXCEPT ![t] = IdleTask]
  /\ loop' = LoopAfter(t, "idle")
  /\ UNCHANGED backend
  /\ UNCHANGED <<lock, cache, inst, built, hist, calls, disk, active>>

\* create_embeddings, lines 121-157, for every payload and every behaviour
\* of the handle
GenerateEmbeddingsOf(t) ==
  /\ task[t].pc = "using"
  /\ task[t].kind = "embeddings"
  /\ MayRun(t)
  /\ \E texts \in EmbeddingInputs, model \in Handles :
       last' = Response(t, texts, model)
  /\ task' = [task EXCEPT ![t] = IdleTask]
  /\ loop' = LoopAfter(t, "idle")
  /\ UNCHANGED backend
  /\ UNCHANGED <<lock, cache, inst, built, hist, calls, disk, active>>

\* ChatCompletionRequest.temperature and max_tokens are Optional: the empty
\* set is None, {v} is the value v; temperatures are in tenths (0.0 .. 2.0)
Temperatures == {{}, {0}, {10}}

MaxTokens == {{}, {150}}

\* Settings, lines 15-16: temperature 0.7 (in tenths) and max_tokens
settings == [temperature |-> 7, max_tokens |-> 3000]

\* create_chat_completion, lines 126-128 and 158-160: ModelService has no
\* method model_exists, the call raises AttributeError and the handler's
\* `except Exception` answers 500
CreateChatCompletion(t) ==
  /\ task[t].pc = "pending"
  /\ task[t].kind = "chat_completion"
  /\ loop = NoTask
  /\ task' = [task EXCEPT ![t] = IdleTask]
  /\ \E temperature \in Temperatures, max_tokens \in MaxTokens :
       last' = [Ended(t, "error", 0, 500) EXCEPT
                  !.arg = <<[temperature |-> temperature,
                             max_tokens |-> max_tokens]>>]
  /\ UNCHANGED backend
  /\ UNCHANGED <<lock, cache, inst, built, loop, hist, calls, disk, active>>

\* load_model, lines 224-226 and 270-271: service.model_exists raises
\* AttributeError, answered 500
LoadModel(t) ==
  /\ task[t].pc = "pending"
  /\ task[t].kind = "load"
  /\ loop = NoTask
  /\ task' = [task EXCEPT ![t] = IdleTask]
  /\ last' = Ended(t, "error", 0, 500)
  /\ UNCHANGED backend
  /\ UNCHANGED <<lock, cache, inst, built, loop, hist, calls, disk, active>>

\* unload_model (controller), lines 325-327 and 357-358: service.model_exists
\* raises AttributeError, answered 500
UnloadModel(t) ==
  /\ task[t].pc = "pending"
  /\ task[t].kind = "unload"
  /\ loop = NoTask
  /\ task' = [task EXCEPT ![t] = IdleTask]
  /\ last' = Ended(t, "error", 0, 500)
  /\ UNCHANGED backend
  /\ UNCHANGED <<lock, cache, inst, built, loop, hist, calls, disk, active>>

\* download_model, lines 147-168: validate (400), queue the background task
\* and answer 202; the background task runs after the response was sent
DownloadModel(t) ==
  /\ task[t].pc = "pending"
  /\ task[t].kind = "download"
  /\ loop = NoTask
  /\ IF validate_repository(task[t].repo)
     THEN /\ task' = [task EXCEPT ![t].pc = "bg_start"]
          /\ last' = Ended(t, "ok", 0, 202)
     ELSE /\ task' = [task EXCEPT ![t] = IdleTask]
          /\ last' = Ended(t, "error", 0, 400)
  /\ UNCHANGED backend
  /\ UNCHANGED <<lock, cache, inst, built, loop, hist, calls, disk, active>>

\* the table after self._active_downloads[filename] = {...}
Registered(r) ==
  LET f == FilenameOf(r)
      rec == [status |-> "downloading", repository |-> r,
              model_type |-> ModelTypeOf(r)]
  IN [g \in DOMAIN active \cup {f} |-> IF g = f THEN rec ELSE active[g]]

\* the table after self._active_downloads.pop(filename, None)
Popped(f) == [g \in DOMAIN active \ {f} |-> active[g]]

\* download_model_async, lines 246-255: the repository has a filename in one
\* of the two tables
Configured(r) ==
  r \in DOMAIN DOWNLOADABLE_CHAT_MODELS \/ r \in DOMAIN DOWNLOADABLE_EMBEDDING_MODELS

\* download_model_async, lines 246-293: raise ValueError for a repository
\* without filename; otherwise register the record under the lock, hand
\* _download to the executor and await it
DownloadModelAsync(t) ==
  /\ task[t].pc = "bg_start"
  /\ MayRun(t)
  /\ IF Configured(task[t].repo)
     THEN /\ active' = Registered(task[t].repo)
          /\ task' = [task EXCEPT ![t].pc = "dl_wait", ![t].wk = "queued"]
          /\ loop' = LoopAfter(t, "dl_wait")
          /\ UNCHANGED last
     ELSE /\ task' = [u \in Tasks |->
                        IF u = t THEN IdleTask
                        ELSE [task[u] EXCEPT !.due = @ \ {t}]]
          /\ last' = Ended(t, "error", 0, 0)
          /\ loop' = LoopAfter(t, "idle")
          /\ UNCHANGED active
  /\ UNCHANGED backend
  /\ UNCHANGED <<lock, cache, inst, built, hist, calls, disk>>

\* an executor thread starts _download: hf_hub_download is called
WorkerStart(t) ==
  /\ task[t].wk = "queued"
  /\ task' = [task EXCEPT ![t].wk = "running", ![t].n = @ + 1]
  /\ UNCHANGED backend
  /\ UNCHANGED <<lock, cache, inst, built, loop, hist, calls, disk, active, last>>

\* the worker after hf_hub_download raised: the except clause of _download
\* is entered, the call is not repeated
RaisedRetry(t) == [task EXCEPT ![t].wk = "queued"]

Raised(t) == [task EXCEPT ![t].wk = "raised", ![t].out = "raised"]

\* _download, lines 258-267 and 274: hf_hub_download returns with the file
\* in target_dir, or raises
WorkerTransfer(t) ==
  /\ task[t].wk = "running"
  /\ \E ok \in BOOLEAN :
       IF ok
       THEN /\ disk' = [disk EXCEPT ![ModelTypeOf(task[t].repo)] =
                         @ \cup {File("", PathOfFile[FilenameOf(task[t].repo)])}]
            /\ task' = [task EXCEPT ![t].wk = "transferred", ![t].out = "ok"]
       ELSE /\ task' = Raised(t)
            /\ UNCHANGED disk
  /\ UNCHANGED backend
  /\ UNCHANGED <<lock, cache, inst, built, loop, hist, calls, active, last>>

\* the table when _download leaves its try statement after outcome o of the
\* transfer: the record is popped on success (line 271) and in the except
\* clause (line 277)
AfterTransferLeak(f, o) == IF o = "raised" THEN active ELSE Popped(f)

AfterTransfer(f, o) == Popped(f)

\* _download, lines 270-278: pop the record under the lock, print, return
WorkerPop(t) ==
  /\ task[t].wk \in {"transferred", "raised"}
  /\ active' = AfterTransfer(FilenameOf(task[t].repo), task[t].out)
  /\ task' = [task EXCEPT ![t].wk = "finished"]
  /\ UNCHANGED backend
  /\ UNCHANGED <<lock, cache, inst, built, loop, hist, calls, disk, last>>

\* download_model_async, line 293: the await returns when _download has
\* returned, and raises what _download raised
DownloadResume(t) ==
  /\ task[t].pc = "dl_wait"
  /\ task[t].wk \in {"finished", "failed"}
  /\ MayRun(t)
  /\ task' = [u \in Tasks |->
                IF u = t THEN IdleTask ELSE [task[u] EXCEPT !.due = @ \ {t}]]
  /\ last' = Ended(t, IF task[t].wk = "failed" THEN "error" ELSE "ok",
                   task[t].n, 0)
  /\ loop' = LoopAfter(t, "idle")
  /\ UNCHANGED backend
  /\ UNCHANGED <<lock, cache, inst, built, hist, calls, disk, active>>

\* list_available_*_models, lines 90-96: one entry per .gguf file that rglob
\* finds under the class directory
Scan(c) ==
  {[name |-> f.stem, path |-> f, size |-> "bytes", status |-> "ready_to_use"] :
     f \in disk[c]}

\* list_available_*_models, lines 101-110: the entry of an in-flight record
Downloading(g) ==
  [name |-> PathOfFile[g], path |-> File("none", PathOfFile[g]),
   size |-> "Downloading...", status |-> "downloading"]

\* list_available_*_models, lines 98-112: the scanned entries, then the
\* records of the class whose stem is not the name of a scanned entry
list_available(c, models, act) ==
  models \cup
  {Downloading(g) : g \in {h \in DOMAIN act :
       /\ act[h].model_type = c
       /\ ~\E m \in models : m.name = PathOfFile[h]}}

\* list_chat_models / list_embedding_models: the handler runs on the event
\* loop; list_available_*_models first scans the directory
ListScan(t) ==
  /\ Starts(t, "list")
  /\ task' = [task EXCEPT ![t].pc = "l_read", ![t].scan = Scan(task[t].cls)]
  /\ loop' = t
  /\ UNCHANGED backend
  /\ UNCHANGED <<lock, cache, inst, built, hist, calls, disk, active, last>>

\* list_available_*_models, lines 99-112: copy the table under the lock, add
\* the downloading entries and return; the handler answers 200
ListRead(t) ==
  /\ task[t].pc = "l_read"
  /\ MayRun(t)
  /\ last' = [Ended(t, "ok", 0, 200) EXCEPT
                !.models = list_available(task[t].cls, task[t].scan, active)]
  /\ task' = [task EXCEPT ![t] = IdleTask]
  /\ loop' = LoopAfter(t, "idle")
  /\ UNCHANGED backend
  /\ UNCHANGED <<lock, cache, inst, built, hist, calls, disk, active>>

\* the model directories when the server starts: empty, every model in
\* place, one model stored twice, in the directory and in a subdirectory, or
\* an embedding directory that lacks a model the chat directory has
InitialDisks ==
  { [c \in Classes |-> {}],
    [c \in Classes |-> {File("", p) : p \in Paths}],
    [c \in Classes |-> {File("", 1), File("sub", 1)}],
    [c \in Classes |-> IF c = "chat" THEN {File("", p) : p \in Paths}
                                     ELSE {File("", 1)}] }

InitServer ==
  /\ lock = Unlocked
  /\ InitBackend
  /\ cache = EmptyCache
  /\ inst = [c \in Classes |-> TRUE]
  /\ built = [c \in Classes |-> [p \in Paths |-> 0]]
  /\ loop = NoTask
  /\ task = [t \in Tasks |-> IdleTask]
  /\ hist = [c \in Classes |-> [p \in Paths |-> FreshHist]]
  /\ calls = 0
  /\ disk \in InitialDisks
  /\ active = <<>>
  /\ last = NoLast

NextServer ==
  \/ \E t \in Tasks, p \in Paths, f \in {"float", "base64"} :
       Request(t, "embeddings", "embedding", p, f, "")
  \/ \E t \in Tasks, p \in Paths :
       Request(t, "chat_completion", "chat", p, "float", "")
  \/ \E t \in Tasks, k \in {"load", "unload"}, c \in Classes, p \in Paths :
       Request(t, k, c, p, "float", "")
  \/ \E t \in Tasks, r \in Repositories :
       Request(t, "download", "chat", 1, "float", r)
  \/ \E t \in Tasks, c \in Classes :
       Request(t, "list", c, 1, "float", "")
  \/ \E t \in Tasks : CreateEmbeddings(t)
  \/ \E t \in Tasks : GetConstruct(t)
  \/ \E t \in Tasks : GetInsert(t)
  \/ \E t \in Tasks : GetReturn(t)
  \/ \E t \in Tasks : GenerateEmbeddings(t)
  \/ \E t \in Tasks : CreateChatCompletion(t)
  \/ \E t \in Tasks : LoadModel(t)
  \/ \E t \in Tasks : UnloadModel(t)
  \/ \E t \in Tasks : DownloadModel(t)
  \/ \E t \in Tasks : DownloadModelAsync(t)
  \/ \E t \in Tasks : WorkerStart(t)
  \/ \E t \in Tasks : WorkerTransfer(t)
  \/ \E t \in Tasks : WorkerPop(t)
  \/ \E t \in Tasks : DownloadResume(t)
  \/ \E t \in Tasks : ListScan(t)
  \/ \E t \in Tasks : ListRead(t)

SpecServer == InitServer /\ [][NextServer]_vars

\* the download coordinator and the listings alone: the requests are
\* POST /v1/models/download, GET /v1/models/chat and GET /v1/models/embeddings
NextDownload ==
  \/ \E t \in Tasks, r \in Repositories :
       Request(t, "download", "chat", 1, "float", r)
  \/ \E t \in Tasks, c \in Classes :
       Request(t, "list", c, 1, "float", "")
  \/ \E t \in Tasks : DownloadModel(t)
  \/ \E t \in Tasks : DownloadModelAsync(t)
  \/ \E t \in Tasks : WorkerStart(t)
  \/ \E t \in Tasks : WorkerTransfer(t)
  \/ \E t \in Tasks : WorkerPop(t)
  \/ \E t \in Tasks : DownloadResume(t)
  \/ \E t \in Tasks : ListScan(t)
  \/ \E t \in Tasks : ListRead(t)

SpecDownload == InitServer /\ [][NextDownload]_vars

\* the executor runs every _download handed to it, and hf_hub_download
\* returns or raises
WorkerFairness ==
  \A t \in Tasks :
    /\ WF_vars(WorkerStart(t))
    /\ WF_vars(WorkerTransfer(t))
    /\ WF_vars(WorkerPop(t))

\* the download endpoint alone: the listings read the table and the
\* directory and write neither
NextFetch ==
  \/ \E t \in Tasks, r \in Repositories :
       Request(t, "download", "chat", 1, "float", r)
  \/ \E t \in Tasks : DownloadModel(t)
  \/ \E t \in Tasks : DownloadModelAsync(t)
  \/ \E t \in Tasks : WorkerStart(t)
  \/ \E t \in Tasks : WorkerTransfer(t)
  \/ \E t \in Tasks : WorkerPop(t)
  \/ \E t \in Tasks : DownloadResume(t)

SpecFetch == InitServer /\ [][NextFetch]_vars

\* the downloads that end in the executor: one repository of each table,
\* so that the records of one file and of two files are both in the table
TransferredRepositories ==
  {"unsloth/Qwen3-4B-Instruct-2507-GGUF", "Qwen/Qwen3-Embedding-4B-GGUF"}

NextTransfer ==
  \/ \E t \in Tasks, r \in TransferredRepositories :
       Request(t, "download", "chat", 1, "float", r)
  \/ \E t \in Tasks : DownloadModel(t)
  \/ \E t \in Tasks : DownloadModelAsync(t)
  \/ \E t \in Tasks : WorkerStart(t)
  \/ \E t \in Tasks : WorkerTransfer(t)
  \/ \E t \in Tasks : WorkerPop(t)
  \/ \E t \in Tasks : DownloadResume(t)

SpecTransferFair == InitServer /\ [][NextTransfer]_vars /\ WorkerFairness

\* ---- the lock of the in-flight table --------------------------------------

\* the lock when its holder leaves a `with self._downloads_lock` block
WithExitHeld(holder) == holder

WithExit(holder) == Unlocked

\* download_model_async, line 284: the background task enters the block;
\* threading.Lock blocks the thread, here the event loop, until it is free
RegisterLock(t) ==
  /\ task[t].pc = "bg_start"
  /\ MayRun(t)
  /\ Configured(task[t].repo)
  /\ lock = Unlocked
  /\ lock' = [thread |-> "loop", task |-> t]
  /\ task' = [task EXCEPT ![t].pc = "registering"]
  /\ loop' = t
  /\ UNCHANGED backend
  /\ UNCHANGED <<cache, inst, built, hist, calls, disk, active, last>>

\* download_model_async, lines 285-293: write the record, leave the block,
\* hand _download to the executor and await it
RegisterWrite(t) ==
  /\ task[t].pc = "registering"
  /\ MayRun(t)
  /\ active' = Registered(task[t].repo)
  /\ lock' = WithExit(lock)
  /\ task' = [task EXCEPT ![t].pc = "dl_wait", ![t].wk = "queued"]
  /\ loop' = LoopAfter(t, "dl_wait")
  /\ UNCHANGED backend
  /\ UNCHANGED <<cache, inst, built, hist, calls, disk, last>>

\* _download, lines 270 and 276: the worker enters the block after
\* hf_hub_download returned or raised
PopLock(t) ==
  /\ task[t].wk \in {"transferred", "raised"}
  /\ lock = Unlocked
  /\ lock' = [thread |-> "executor", task |-> t]
  /\ task' = [task EXCEPT ![t].wk = "popping"]
  /\ UNCHANGED backend
  /\ UNCHANGED <<cache, inst, built, loop, hist, calls, disk, active, last>>

\* _download, lines 271 and 277: pop the record and leave the block
PopWrite(t) ==
  /\ task[t].wk = "popping"
  /\ active' = AfterTransfer(FilenameOf(task[t].repo), task[t].out)
  /\ lock' = WithExit(lock)
  /\ task' = [task EXCEPT ![t].wk = "finished"]
  /\ UNCHANGED backend
  /\ UNCHANGED <<cache, inst, built, loop, hist, calls, disk, last>>

\* list_available_*_models, lines 99 and 135: the listing enters the block
\* after its scan
SnapshotLock(t) ==
  /\ task[t].pc = "l_read"
  /\ MayRun(t)
  /\ lock = Unlocked
  /\ lock' = [thread |-> "loop", task |-> t]
  /\ task' = [task EXCEPT ![t].pc = "l_snapshot"]
  /\ UNCHANGED backend
  /\ UNCHANGED <<cache, inst, built, loop, hist, calls, disk, active, last>>

\* list_available_*_models, lines 100-112 and 136-148: copy the table, leave
\* the block, add the downloading entries and return
SnapshotRead(t) ==
  /\ task[t].pc = "l_snapshot"
  /\ MayRun(t)
  /\ last' = [Ended(t, "ok", 0, 200) EXCEPT
                !.models = list_available(task[t].cls, task[t].scan, active)]
  /\ lock' = WithExit(lock)
  /\ task' = [task EXCEPT ![t] = IdleTask]
  /\ loop' = LoopAfter(t, "idle")
  /\ UNCHANGED backend
  /\ UNCHANGED <<cache, inst, built, hist, calls, disk, active>>

\* the download and listing endpoints with the acquisition of the lock as a
\* step of its own
NextLock ==
  \/ \E t \in Tasks, r \in TransferredRepositories :
       Request(t, "download", "chat", 1, "float", r)
  \/ \E t \in Tasks, c \in Classes :
       Request(t, "list", c, 1, "float", "")
  \/ \E t \in Tasks : DownloadModel(t)
  \/ \E t \in Tasks : RegisterLock(t)
  \/ \E t \in Tasks : RegisterWrite(t)
  \/ \E t \in Tasks : WorkerStart(t)
  \/ \E t \in Tasks : WorkerTransfer(t)
  \/ \E t \in Tasks : PopLock(t)
  \/ \E t \in Tasks : PopWrite(t)
  \/ \E t \in Tasks : DownloadResume(t)
  \/ \E t \in Tasks : ListScan(t)
  \/ \E t \in Tasks : SnapshotLock(t)
  \/ \E t \in Tasks : SnapshotRead(t)

SpecLock == InitServer /\ [][NextLock]_vars

\* the embeddings endpoint alone: the requests are POST /v1/embeddings
NextEmbeddings ==
  \/ \E t \in Tasks, p \in Paths, f \in {"float", "base64"} :
       Request(t, "embeddings", "embedding", p, f, "")
  \/ \E t \in Tasks : CreateEmbeddings(t)
  \/ \E t \in Tasks : GetConstruct(t)
  \/ \E t \in Tasks : GetInsert(t)
  \/ \E t \in Tasks : GetReturn(t)
  \/ \E t \in Tasks : GenerateEmbeddings(t)

SpecEmbeddings == InitServer /\ [][NextEmbeddings]_vars

\* ---- ChatCompletionService ------------------------------------------------

\* an Optional value: the empty set is None, {v} is the value v
None == {}

Some(v) == {v}

Value(o) == CHOOSE v \in o : TRUE

\* LlamaToolCall values of a native response
LlamaToolCalls ==
  { [id |-> "call_1", type |-> "function",
     function |-> [name |-> "get_weather", arguments |-> "{city}"]],
    [id |-> "call_2", type |-> "function",
     function |-> [name |-> "get_time", arguments |-> "{}"]] }

LlamaToolCallLists == UNION {[1..n -> LlamaToolCalls] : n \in 0..MaxToolCalls}

\* LlamaMessage values: role is any string, content and tool_calls are
\* Optional
LlamaMessages ==
  [role : {"assistant", "model"},
   content : {None, Some(""), Some("hello")},
   tool_calls : {None} \cup {Some(l) : l \in LlamaToolCallLists}]

\* LlamaChoice values for choice 0, and a choice that follows it
LlamaChoices ==
  [index : {0}, message : LlamaMessages, finish_reason : {"stop", "tool_calls"}]

OtherChoice ==
  [index |-> 1,
   message |-> [role |-> "assistant", content |-> Some("other"),
                tool_calls |-> Some(<<CHOOSE c \in LlamaToolCalls : c.id = "call_2">>)],
   finish_reason |-> "length"]

LlamaUsages ==
  { [prompt_tokens |-> 20, completion_tokens |-> 10, total_tokens |-> 30],
    [prompt_tokens |-> 85, completion_tokens |-> 25, total_tokens |-> 0] }

\* LlamaChatCompletionResponse values: with no choice, one choice, two
\* choices
LlamaChatCompletionResponses ==
  {[id |-> "chatcmpl-abc123", object |-> "text_completion",
    created |-> 1707782400, model |-> "model.gguf", choices |-> cs, usage |-> u] :
     cs \in {<<>>} \cup {<<c>> : c \in LlamaChoices}
                  \cup {<<c, OtherChoice>> : c \in LlamaChoices},
     u \in LlamaUsages}

\* Message.role: Literal["system", "user", "assistant", "tool"]
Roles == {"system", "user", "assistant", "tool"}

\* parse_model_response, line 86: choice_data = response.choices[0]
ChoiceDataLast(response) == response.choices[Len(response.choices)]

ChoiceData(response) == response.choices[1]

\* parse_model_response, lines 93-100: ToolCall(id, type, function)
ToolCall(tc) ==
  [id |-> tc.id, type |-> tc.type,
   function |-> [name |-> tc.function.name, arguments |-> tc.function.arguments]]

\* parse_model_response, lines 90-102: None unless the message has a
\* non-empty list of tool calls
ToolCallsOf(message_data) ==
  IF message_data.tool_calls # None /\ Value(message_data.tool_calls) # <<>>
  THEN LET l == Value(message_data.tool_calls)
       IN Some([i \in 1..Len(l) |-> ToolCall(l[i])])
  ELSE None

\* parse_model_response, line 107: message_data.content or ""
ContentOf(message_data) ==
  IF message_data.content # None /\ Value(message_data.content) # ""
  THEN Value(message_data.content) ELSE ""

\* ChatCompletionService.parse_model_response: IndexError for an empty list
\* of choices, a validation error of Message for a role outside the
\* Literal, otherwise the ChatCompletionResponse
parse_model_response(response) ==
  IF response.choices = <<>>
  THEN [exc |-> "IndexError", value |-> <<>>]
  ELSE LET choice_data == ChoiceData(response)
           message_data == choice_data.message
       IN IF message_data.role \notin Roles
          THEN [exc |-> "ValidationError", value |-> <<>>]
          ELSE [exc |-> "none",
                value |->
                  << [id |-> response.id,
                      object |-> "chat.completion",
                      created |-> response.created,
                      model |-> response.model,
                      choices |->
                        << [index |-> choice_data.index,
                            message |-> [role |-> message_data.role,
                                         content |-> ContentOf(message_data)],
                            finish_reason |-> choice_data.finish_reason,
                            tool_calls |-> ToolCallsOf(message_data)] >>,
                      usage |->
                        [prompt_tokens |-> response.usage.prompt_tokens,
                         completion_tokens |-> response.usage.completion_tokens,
                         total_tokens |-> response.usage.total_tokens]] >>]

\* a caller applies parse_model_response to a typed native response
ParseModelResponse ==
  /\ last.kind = "none"
  /\ Len(last.arg) = 1
  /\ last.arg[1] \in LlamaChatCompletionResponses
  /\ LET response == last.arg[1]
         r == parse_model_response(response) IN
       last' = [NoLast EXCEPT !.kind = "parse_model_response",
                              !.st = IF r.exc = "none" THEN "ok" ELSE "error",
                              !.out = r.exc,
                              !.arg = <<response>>,
                              !.res = r.value]
  /\ UNCHANGED backend
  /\ UNCHANGED <<lock, cache, inst, built, loop, task, hist, calls, disk, active>>

\* the dict d without key k
Without(d, k) == [f \in DOMAIN d \ {k} |-> d[f]]

\* the dicts that model.create_chat_completion may return: the well-formed
\* ones and those that lack one key of the response, of a choice, of a
\* message or of the usage
WellFormed ==
  {r \in LlamaChatCompletionResponses :
     /\ r.choices # <<>>
     /\ r.choices[1].message.role = "assistant"
     /\ r.choices[1].message.content = Some("hello")
     /\ r.choices[1].finish_reason = "stop"}

NativeDicts ==
  UNION {
    {r} \cup {Without(r, k) : k \in DOMAIN r}
        \cup {[r EXCEPT !.usage = Without(@, k)] : k \in DOMAIN r.usage}
        \cup UNION {
               {[r EXCEPT !.choices[i] = Without(@, k)] :
                  k \in DOMAIN r.choices[i]}
                 \cup {[r EXCEPT !.choices[i].message = Without(@, k)] :
                         k \in DOMAIN r.choices[i].message} :
               i \in 1..Len(r.choices)} :
    r \in WellFormed}

\* llama.py, lines 21-49: the fields declared with Field(...) are required,
\* those declared with Field(None, ...) default to None
Required(d, keys) == keys \subseteq DOMAIN d

Default(d, k) == IF k \in DOMAIN d THEN d[k] ELSE None

\* generate_completion, line 72: LlamaChatCompletionResponse(**response)
\* raises a ValidationError unless every required field is there
LlamaChatCompletionResponseUnchecked(response) ==
  [exc |-> "none", value |-> <<response>>]

LlamaChatCompletionResponse(response) ==
  IF /\ Required(response,
                 {"id", "object", "created", "model", "choices", "usage"})
     /\ Required(response.usage,
                 {"prompt_tokens", "completion_tokens", "total_tokens"})
     /\ \A i \in 1..Len(response.choices) :
          /\ Required(response.choices[i], {"index", "message", "finish_reason"})
          /\ Required(response.choices[i].message, {"role"})
  THEN [exc |-> "none",
        value |->
          << [response EXCEPT !.choices =
                [i \in 1..Len(response.choices) |->
                   [response.choices[i] EXCEPT !.message =
                      [role |-> @.role,
                       content |-> Default(@, "content"),
                       tool_calls |-> Default(@, "tool_calls")]]]] >>]
  ELSE [exc |-> "ValidationError", value |-> <<>>]

\* Message values of a request: a user message and a tool message
ChatMessages ==
  {[role |-> "user", content |-> "Hi there", name |-> None,
    tool_call_id |-> None],
   [role |-> "tool", content |-> "", name |-> Some("get_weather"),
    tool_call_id |-> Some("call_1")]}

\* Tool values of a request
ChatTools ==
  {[type |-> "function",
    function |-> [name |-> n, description |-> "Get the weather",
                  parameters |-> "object"]] : n \in {"get_weather", "get_time"}}

\* the arguments of generate_completion: the messages, the Optional list of
\* tools, temperature (in tenths) and max_tokens
ChatRequests ==
  [messages : UNION {[1..n -> ChatMessages] : n \in 0..MaxMessages},
   tools : {None} \cup {Some(l) : l \in UNION {[1..n -> ChatTools] : n \in 0..MaxTools}},
   temperature : {7},
   max_tokens : {100}]

\* the handle's create_chat_completion raises instead of returning a dict
Raises == [raises |-> "RuntimeError"]

\* generate_completion, lines 43-46: one dict of role and content per message
MessagesDictReversed(messages) ==
  [i \in 1..Len(messages) |->
     [role |-> messages[Len(messages) + 1 - i].role,
      content |-> messages[Len(messages) + 1 - i].content]]

MessagesDict(messages) ==
  [i \in 1..Len(messages) |->
     [role |-> messages[i].role,
      content |-> IF messages[i].content = "" THEN "" ELSE messages[i].content]]

\* generate_completion, lines 49-61: None unless the list of tools is there
\* and not empty; one function entry per tool
ToolsDict(tools) ==
  IF tools = None \/ Value(tools) = <<>> THEN None
  ELSE Some([i \in 1..Len(Value(tools)) |->
               [type |-> "function",
                function |->
                  [name |-> Value(tools)[i].function.name,
                   description |-> Value(tools)[i].function.description,
                   parameters |-> Value(tools)[i].function.parameters]]])

\* generate_completion, lines 43-72: convert the messages and the tools,
\* call the handle once, validate the dict it returns and return it as
\* typed response; what the handle raises leaves the function
GenerateCompletion ==
  /\ last.kind = "none"
  /\ Len(last.arg) = 2
  /\ last.arg[1] \in NativeDicts \cup {Raises}
  /\ LET response == last.arg[1]
         request == last.arg[2]
         r == IF response = Raises
              THEN [exc |-> Raises.raises, value |-> <<>>]
              ELSE LlamaChatCompletionResponse(response) IN
       last' = [NoLast EXCEPT !.kind = "generate_completion",
                              !.st = IF r.exc = "none" THEN "ok" ELSE "error",
                              !.out = r.exc,
                              !.arg = <<response, request>>,
                              !.native =
                                << [op |-> "create_chat_completion",
                                    messages |-> MessagesDict(request.messages),
                                    tools |-> ToolsDict(request.tools),
                                    max_tokens |-> request.max_tokens,
                                    temperature |-> request.temperature] >>,
                              !.res = r.value]
  /\ UNCHANGED backend
  /\ UNCHANGED <<lock, cache, inst, built, loop, task, hist, calls, disk, active>>

NextChatService ==
  \/ ParseModelResponse
  \/ GenerateCompletion

\* the service functions are static methods without state: a behaviour
\* starts with the argument of one call: a typed native response for
\* parse_model_response; for generate_completion what the handle does,
\* with one request, or the request, with three things the handle may do
ServiceCalls ==
  {<<response>> : response \in LlamaChatCompletionResponses}
    \cup {<<response, request>> :
            response \in NativeDicts,
            request \in {q \in ChatRequests : Len(q.messages) = 1 /\ q.tools = None}}
    \cup {<<response, request>> :
            response \in {Raises} \cup {d \in NativeDicts :
                           d \in WellFormed \/ "usage" \notin DOMAIN d},
            request \in ChatRequests}

InitChatService ==
  /\ lock = Unlocked
  /\ InitBackend
  /\ cache = EmptyCache
  /\ inst = [c \in Classes |-> TRUE]
  /\ built = [c \in Classes |-> [p \in Paths |-> 0]]
  /\ loop = NoTask
  /\ task = [t \in Tasks |-> IdleTask]
  /\ hist = [c \in Classes |-> [p \in Paths |-> FreshHist]]
  /\ calls = 0
  /\ disk = [c \in Classes |-> {}]
  /\ active = <<>>
  /\ \E call \in ServiceCalls : last = [NoLast EXCEPT !.arg = call]

SpecChatService == InitChatService /\ [][NextChatService]_vars

\* the payload of the embeddings endpoint: one client sends its requests
\* for one model one after the other; the handler runs generate_embeddings,
\* count_tokens and the response without leaving the event loop
NextPayload ==
  \/ Request(1, "embeddings", "embedding", 1, "float", "")
  \/ CreateEmbeddings(1)
  \/ GetConstruct(1)
  \/ GetInsert(1)
  \/ GetReturn(1)
  \/ GenerateEmbeddingsOf(1)

SpecPayload == InitServer /\ [][NextPayload]_vars


\* ---- the backend: embedding with retry (pre_analyze_document_service.py) --

\* range(3) in _embed_text_by_llm
Attempts == 3

\* what the embedding endpoint would answer to a request: a vector, or an
\* error of the client
Outcomes == {"vector", "TimeoutError", "APIError"}

\* llm_client.embed_text(model_name, text), called with the positional
\* arguments args: a call without both arguments raises TypeError before the
\* body runs; otherwise one request is sent and its outcome is returned or
\* raised
embed_text(args, outcome) ==
  IF Len(args) # 2 THEN [raised |-> "TypeError", requests |-> 0]
  ELSE [raised |-> IF outcome = "vector" THEN "none" ELSE outcome,
        requests |-> 1]

\* _embed_text_by_llm, lines 49-65, from the iteration `attempt` of the loop
\* on: embed_text(text) is called; its result is returned, or the exception
\* is caught, followed by time.sleep(1) if attempt < 2; after the loop
\* RuntimeError is raised.  log lists the calls of embed_text and of sleep.
RECURSIVE EmbedFromAttempt(_, _, _)
EmbedFromAttempt(attempt, text, outcomes) ==
  IF attempt = Attempts
  THEN [log |-> <<>>, requests |-> 0, result |-> "RuntimeError"]
  ELSE LET r == embed_text(<<text>>, outcomes[attempt + 1]) IN
       IF r.raised = "none"
       THEN [log |-> <<"embed_text">>, requests |-> r.requests,
             result |-> "vector"]
       ELSE LET rest == EmbedFromAttempt(attempt + 1, text, outcomes) IN
            [log |-> <<"embed_text">>
                       \o (IF attempt < 2 THEN <<"sleep">> ELSE <<>>)
                       \o rest.log,
             requests |-> r.requests + rest.requests,
             result |-> rest.result]

_embed_text_by_llm(text, outcomes) == EmbedFromAttempt(0, text, outcomes)

\* the analysis thread embeds one text
EmbedTextByLlm ==
  /\ last.kind = "none"
  /\ LET call == last.arg[1]
         r == _embed_text_by_llm(call.text, call.outcomes) IN
       last' = [NoLast EXCEPT !.kind = "_embed_text_by_llm",
                              !.st = IF r.result = "vector" THEN "ok" ELSE "error",
                              !.out = r.result,
                              !.val = r.requests,
                              !.arg = last.arg,
                              !.res = r.log]
  /\ UNCHANGED backend
  /\ UNCHANGED <<lock, cache, inst, built, loop, task, hist, calls, disk, active>>

\* a behaviour starts with the text and with what the endpoint would answer
\* to the first, second and third request
InitRetry ==
  /\ lock = Unlocked
  /\ InitBackend
  /\ cache = EmptyCache
  /\ inst = [c \in Classes |-> TRUE]
  /\ built = [c \in Classes |-> [p \in Paths |-> 0]]
  /\ loop = NoTask
  /\ task = [t \in Tasks |-> IdleTask]
  /\ hist = [c \in Classes |-> [p \in Paths |-> FreshHist]]
  /\ calls = 0
  /\ disk = [c \in Classes |-> {}]
  /\ active = <<>>
  /\ \E text \in Texts, outcomes \in [1..Attempts -> Outcomes] :
       last = [NoLast EXCEPT !.arg = <<[text |-> text, outcomes |-> outcomes]>>]

SpecRetry == InitRetry /\ [][EmbedTextByLlm]_vars

\* ---- the backend: sessions of /ask (session_manager.py, ai_chat_service.py)

\* create_session, lines 55-64: the table with the new session; uuid4
\* returns an identifier that was never issued before
create_session(document_name) ==
  [id \in DOMAIN sessions \cup {uuid + 1} |->
     IF id = uuid + 1 THEN [document_name |-> document_name] ELSE sessions[id]]

\* get_current_document_name, lines 109-118, with get_current_session_id,
\* lines 93-97, in execution context t: RuntimeError when the ContextVar
\* is None or names no session of the table
get_current_document_name_shared(t) ==
  IF uuid \notin DOMAIN sessions
  THEN [raised |-> "RuntimeError", value |-> ""]
  ELSE [raised |-> "none", value |-> sessions[uuid].document_name]

get_current_document_name(t) ==
  IF _session_context[t] = {} THEN [raised |-> "RuntimeError", value |-> ""]
  ELSE LET session_id == CHOOSE id \in _session_context[t] : TRUE IN
       IF session_id \notin DOMAIN sessions
       THEN [raised |-> "RuntimeError", value |-> ""]
       ELSE [raised |-> "none", value |-> sessions[session_id].document_name]

\* cleanup_session, lines 127-133: the table without the session
cleanup_session_all(session_id) == <<>>

cleanup_session(session_id) ==
  [id \in DOMAIN sessions \ {session_id} |-> sessions[id]]

\* AIChatService.ask, lines 25-59: 400 without document name, 404 without
\* folder 0_data/<document_name>; otherwise session_context is entered:
\* create_session, then set_current_session in the context of the request
Ask(t, document_name) ==
  /\ ask[t].pc = "idle"
  /\ calls < MaxCalls
  /\ calls' = calls + 1
  /\ IF document_name = "" \/ document_name \notin DOMAIN data
     THEN /\ last' = [NoLast EXCEPT !.kind = "ask", !.st = "error", !.val = t,
                        !.status = IF document_name = "" THEN 400 ELSE 404]
          /\ UNCHANGED <<sessions, _session_context, uuid, ask>>
     ELSE /\ sessions' = create_session(document_name)
          /\ uuid' = uuid + 1
          /\ _session_context' = [_session_context EXCEPT ![t] = {uuid + 1}]
          /\ ask' = [ask EXCEPT ![t] = [pc |-> "complete_chat",
                                        document_name |-> document_name,
                                        session_id |-> uuid + 1]]
          /\ UNCHANGED last
  /\ UNCHANGED <<data, analysis>>
  /\ UNCHANGED <<lock, cache, inst, built, loop, task, hist, disk, active>>

\* get_the_most_relevant_chunks, lines 77-88: the tool asks the session
\* manager for the document of the context it runs in; what
\* get_current_document_name raises leaves the tool
GetTheMostRelevantChunks(t) ==
  /\ LET r == get_current_document_name(t) IN
       last' = [NoLast EXCEPT !.kind = "get_current_document_name",
                              !.st = IF r.raised = "none" THEN "ok" ELSE "error",
                              !.val = t,
                              !.out = IF r.raised = "none" THEN r.value
                                      ELSE r.raised]
  /\ UNCHANGED backend
  /\ UNCHANGED <<lock, cache, inst, built, loop, task, hist, calls, disk, active>>

\* AIChatService.ask, lines 60-69: complete_chat returns the answer, or
\* raises; the exception leaves the with block, whose finally clause calls
\* cleanup_session, and the controller answers 500
CompleteChat(t) ==
  /\ ask[t].pc = "complete_chat"
  /\ \E returns \in BOOLEAN :
       IF returns
       THEN /\ ask' = [ask EXCEPT ![t].pc = "verify"]
            /\ UNCHANGED <<sessions, last>>
       ELSE /\ sessions' = cleanup_session(ask[t].session_id)
            /\ ask' = [ask EXCEPT ![t] = IdleAsk]
            /\ last' = [NoLast EXCEPT !.kind = "ask", !.st = "error",
                                      !.val = t, !.status = 500]
  /\ UNCHANGED <<_session_context, uuid, data, analysis>>
  /\ UNCHANGED <<lock, cache, inst, built, loop, task, hist, calls, disk, active>>

\* AIChatService.ask, lines 71-85: _verify_answer returns and the response
\* is returned from inside the with block, or it raises; cleanup_session
\* runs on both ways out
VerifyAnswer(t) ==
  /\ ask[t].pc = "verify"
  /\ sessions' = cleanup_session(ask[t].session_id)
  /\ ask' = [ask EXCEPT ![t] = IdleAsk]
  /\ \E returns \in BOOLEAN :
       last' = [NoLast EXCEPT !.kind = "ask", !.val = t,
                  !.st = IF returns THEN "ok" ELSE "error",
                  !.status = IF returns THEN 200 ELSE 500]
  /\ UNCHANGED <<_session_context, uuid, data, analysis>>
  /\ UNCHANGED <<lock, cache, inst, built, loop, task, hist, calls, disk, active>>

\* the session manager when 0_data holds the folders of documents a and b
InitSession ==
  /\ lock = Unlocked
  /\ cache = EmptyCache
  /\ inst = [c \in Classes |-> TRUE]
  /\ built = [c \in Classes |-> [p \in Paths |-> 0]]
  /\ loop = NoTask
  /\ task = [t \in Tasks |-> IdleTask]
  /\ hist = [c \in Classes |-> [p \in Paths |-> FreshHist]]
  /\ calls = 0
  /\ disk = [c \in Classes |-> {}]
  /\ active = <<>>
  /\ last = NoLast
  /\ sessions = <<>>
  /\ _session_context = [t \in Tasks |-> {}]
  /\ uuid = 0
  /\ ask = [t \in Tasks |-> IdleAsk]
  /\ data = [d \in {"a", "b"} |-> {"pdf"}]
  /\ analysis = <<>>

\* the execution contexts run their requests and tool calls concurrently;
\* the RLock of the manager makes each of its methods one step
NextSession ==
  \/ \E t \in Tasks, document_name \in {"", "a", "b", "c"} :
       Ask(t, document_name)
  \/ \E t \in Tasks : GetTheMostRelevantChunks(t)
  \/ \E t \in Tasks : CompleteChat(t)
  \/ \E t \in Tasks : VerifyAnswer(t)

SpecSession == InitSession /\ [][NextSession]_vars

\* ---- the backend: documents (document_service.py, pre_analyze_document) ----

\* upload_document, lines 28-96: the folder 0_data/<doc_name> is created,
\* the PDF is saved in it and the analysis thread is started; the PDF has
\* text for `chunks` chunks, or pdfplumber cannot read it
UploadDocument(d, chunks, readable) ==
  /\ d \notin DOMAIN data
  /\ calls < MaxCalls
  /\ calls' = calls + 1
  /\ data' = [e \in DOMAIN data \cup {d} |-> IF e = d THEN {"pdf"} ELSE data[e]]
  /\ analysis' = [e \in DOMAIN data \cup {d} |->
                    IF e = d THEN [pc |-> "read", chunks |-> chunks,
                                   readable |-> readable]
                    ELSE analysis[e]]
  /\ last' = [NoLast EXCEPT !.kind = "upload_document", !.st = "ok",
                            !.status = 200, !.out = "analyzing"]
  /\ UNCHANGED <<sessions, _session_context, uuid, ask>>
  /\ UNCHANGED <<lock, cache, inst, built, loop, task, hist, disk, active>>

\* _embed_chunk, _embed_section_summary, _embed_chapter_summary: n texts
\* are embedded one after the other by _embed_text_by_llm, and the first
\* text that is not embedded ends the loop with its exception
EmbedsAll(n) ==
  \A i \in 1..n :
    \E outcomes \in [1..Attempts -> Outcomes] :
      _embed_text_by_llm("a", outcomes).result = "vector"

\* the thread of d and its folder after a statement of the thread: the
\* thread is at label `to` and `files` are written, or the statement raised
\* and the thread has ended, "failed"
After(d, ok, to, files) ==
  [analysis |-> [analysis EXCEPT ![d].pc = IF ok THEN to ELSE "failed"],
   data |-> [data EXCEPT ![d] = IF ok THEN @ \cup files ELSE @]]

\* pre_analyze_document, lines 252-261: read the pages and split the text
ReadDocument(d) ==
  /\ d \in DOMAIN analysis
  /\ analysis[d].pc = "read"
  /\ LET r == After(d, analysis[d].readable, "chunks", {}) IN
       analysis' = r.analysis /\ data' = r.data
  /\ UNCHANGED <<sessions, _session_context, uuid, ask>>
  /\ UNCHANGED <<lock, cache, inst, built, loop, task, hist, calls, disk,
                 active, last>>

\* pre_analyze_document, lines 264-279: write the chunks, embed them, write
\* the embeddings
ProcessChunks(d) ==
  /\ d \in DOMAIN analysis
  /\ \/ /\ analysis[d].pc = "chunks"
        /\ LET r == After(d, TRUE, "embed_chunks", {"chunks"}) IN
             analysis' = r.analysis /\ data' = r.data
     \/ /\ analysis[d].pc = "embed_chunks"
        /\ LET r == After(d, EmbedsAll(analysis[d].chunks), "sections",
                          {"chunk_embeddings"}) IN
             analysis' = r.analysis /\ data' = r.data
  /\ UNCHANGED <<sessions, _session_context, uuid, ask>>
  /\ UNCHANGED <<lock, cache, inst, built, loop, task, hist, calls, disk,
                 active, last>>

\* pre_analyze_document, lines 282-298: build the section summaries with
\* complete_chat(message_list, system_prompt, tools), which lacks the
\* required model_name and raises TypeError for the first section; write
\* them, embed them, write the embeddings
ProcessSections(d) ==
  /\ d \in DOMAIN analysis
  /\ \/ /\ analysis[d].pc = "sections"
        /\ LET r == After(d, analysis[d].chunks = 0, "embed_sections",
                          {"section_summaries"}) IN
             analysis' = r.analysis /\ data' = r.data
     \/ /\ analysis[d].pc = "embed_sections"
        /\ LET r == After(d, EmbedsAll(0), "chapters",
                          {"section_summary_embeddings"}) IN
             analysis' = r.analysis /\ data' = r.data
  /\ UNCHANGED <<sessions, _session_context, uuid, ask>>
  /\ UNCHANGED <<lock, cache, inst, built, loop, task, hist, calls, disk,
                 active, last>>

\* pre_analyze_document, lines 301-337: the same for the chapter summaries
ProcessChapters(d) ==
  /\ d \in DOMAIN analysis
  /\ \/ /\ analysis[d].pc = "chapters"
        /\ LET r == After(d, TRUE, "embed_chapters", {"chapter_summaries"}) IN
             analysis' = r.analysis /\ data' = r.data
     \/ /\ analysis[d].pc = "embed_chapters"
        /\ LET r == After(d, EmbedsAll(0), "done",
                          {"chapter_summary_embeddings"}) IN
             analysis' = r.analysis /\ data' = r.data
  /\ UNCHANGED <<sessions, _session_context, uuid, ask>>
  /\ UNCHANGED <<lock, cache, inst, built, loop, task, hist, calls, disk,
                 active, last>>

\* list_documents, lines 125-128: READY when the chunks file and the chunk
\* embeddings file are in the folder
Status(files) ==
  IF {"chunks", "chunk_embeddings"} \subseteq files THEN "ready"
  ELSE "processing"

\* list_documents, lines 110-143: one entry per folder of 0_data
ListDocuments ==
  /\ last' = [NoLast EXCEPT !.kind = "list_documents", !.st = "ok",
                !.status = 200,
                !.models = {[name |-> d, status |-> Status(data[d])] :
                              d \in DOMAIN data}]
  /\ UNCHANGED backend
  /\ UNCHANGED <<lock, cache, inst, built, loop, task, hist, calls, disk, active>>

\* uploads, the analysis threads they start and the listings, concurrently
NextDocuments ==
  \/ \E d \in {"a", "b"}, chunks \in 0..MaxChunks, readable \in BOOLEAN :
       UploadDocument(d, chunks, readable)
  \/ \E d \in {"a", "b"} : ReadDocument(d)
  \/ \E d \in {"a", "b"} : ProcessChunks(d)
  \/ \E d \in {"a", "b"} : ProcessSections(d)
  \/ \E d \in {"a", "b"} : ProcessChapters(d)
  \/ ListDocuments

SpecDocuments == Init /\ [][NextDocuments]_vars

\* ---- properties of the managers -----------------------------------------

SamePath(t, u) == task[t].cls = task[u].cls /\ task[t].path = task[u].path

\* C1: for every path and class, two get_model calls with no unload_model
\* of that path between them return the same handle, and the model was
\* constructed exactly once (the second call constructs nothing).
C1_IdempotentCacheHit ==
  \A c \in Classes, p \in Paths :
    hist[c][p].gets >= 2 =>
      /\ Cardinality(hist[c][p].rets) = 1
      /\ hist[c][p].builds = 1
      /\ hist[c][p].rets = {cache[c][p]}

C1_Witness ==
  \E c \in Classes, p \in Paths : hist[c][p].gets >= 2 /\ hist[c][p].builds = 1

\* C2: when two or more callers have get_model calls in flight at the same
\* time for the same path that is not yet in the cache, the model of that
\* path is constructed at most once, exactly once as soon as one of the
\* calls has returned, and every handle returned is that one handle.
C2_ConcurrentSingleConstruction ==
  \A c \in Classes, p \in Paths :
    hist[c][p].conc =>
      /\ hist[c][p].builds <= 1
      /\ Cardinality(hist[c][p].rets) <= 1
      /\ (hist[c][p].gets >= 1 =>
            hist[c][p].builds = 1 /\ hist[c][p].rets = {cache[c][p]})

C2_Witness ==
  \E c \in Classes, p \in Paths :
    /\ hist[c][p].conc
    /\ hist[c][p].gets >= 2
    /\ hist[c][p].builds = 1

\* handles of path p of class c that are alive: the cached one and those
\* held by calls in progress
LiveHandles(c, p) ==
  ({cache[c][p]} \cup
   {task[t].h : t \in {v \in Tasks : /\ task[v].cls = c /\ task[v].path = p
                                     /\ task[v].pc \in {"g_insert", "g_return", "using"}}})
  \ {NoHandle}

\* C3: in every reachable state and for each class there is at most one
\* live handle per path, counting the cached handle and the handles held by
\* calls in progress.
C3_OneLiveHandlePerPath ==
  \A c \in Classes, p \in Paths : Cardinality(LiveHandles(c, p)) <= 1

C3_Witness ==
  \E t \in Tasks :
    /\ task[t].pc = "using"
    /\ task[t].h >= 2
    /\ LiveHandles(task[t].cls, task[t].path) = {task[t].h}

\* C4: when the construction fails inside get_model(P) the call ends with
\* the error and the cache is exactly what it was before the call; P is not
\* loaded.
C4_FailedLoadLeavesCache ==
  [][\A t \in Tasks :
       (task[t].pc = "g_construct" /\ task'[t].pc = "idle")
       => /\ last'.st = "error"
          /\ last'.path = task[t].path
          /\ cache' = task[t].snap
          /\ cache'[task[t].cls][task[t].path] = NoHandle]_vars

C4_Witness ==
  /\ last.kind = "get_model"
  /\ last.st = "error"
  /\ ~is_loaded(last.cls, last.path)
  /\ \E q \in Paths : is_loaded(last.cls, q)

\* C5: whenever no call is running, is_loaded(P) is true exactly when the
\* most recent completed operation on P was a get_model(P) that returned.
C5_LoadedIffLastGet ==
  loop = NoTask =>
    \A c \in Classes, p \in Paths :
      is_loaded(c, p) <=> hist[c][p].last = "get_model"

C5_Witness ==
  /\ loop = NoTask
  /\ \E c \in Classes, p \in Paths :
       /\ cache[c][p] >= 2 /\ hist[c][p].last = "get_model" /\ is_loaded(c, p)

\* C6: unload_model(P) returns False and leaves the whole cache unchanged
\* when P is not cached; it returns True and removes only the entry of P
\* when P is cached.
C6_UnloadFrame ==
  [][\A t \in Tasks :
       ( /\ task[t].kind = "unload_model"
         /\ task[t].pc \in {"pending", "u_del"}
         /\ task'[t].pc = "idle" )
       => LET c == task[t].cls
              p == task[t].path
              before == IF task[t].pc = "pending" THEN cache ELSE task[t].snap
              was == before[c][p] # NoHandle
          IN /\ last'.st = "ok"
             /\ last'.val = (IF was THEN 1 ELSE 0)
             /\ cache' = [before EXCEPT ![c][p] = NoHandle]
             /\ (~was => cache' = before)]_vars

C6_Witness ==
  /\ last.kind = "unload_model"
  /\ last.st = "ok"
  /\ last.val = 1
  /\ ~is_loaded(last.cls, last.path)
  /\ \E q \in Paths : is_loaded(last.cls, q)

\* C7: a cached handle is never evicted implicitly: the entry of P changes
\* or disappears only in the delete step of unload_model(P) or in reset of
\* its class; get_model calls for other paths leave it alone.
C7_NoImplicitEviction ==
  [][\A c \in Classes, p \in Paths :
       (cache[c][p] # NoHandle /\ cache'[c][p] # cache[c][p])
       => \/ \E t \in Tasks :
               /\ task[t].pc = "u_del" /\ task'[t].pc = "idle"
               /\ task[t].cls = c /\ task[t].path = p
          \/ ResetCall(c)]_vars

C7_Witness ==
  \E c \in Classes :
    /\ \A p \in Paths : is_loaded(c, p)
    /\ last.kind = "get_model" /\ last.st = "ok" /\ last.cls = c
\* the window of a call between its membership check and its insert/delete
InWindow(t) == task[t].pc \in {"g_construct", "g_insert", "u_del"}

\* C8: the check-then-insert of get_model and the check-then-delete of
\* unload_model on the same path of one manager never overlap.
C8_MutualExclusion ==
  \A t \in Tasks : \A u \in Tasks \ {t} :
    SamePath(t, u) => ~(InWindow(t) /\ InWindow(u))

C8_Witness ==
  \E t \in Tasks : \E u \in Tasks \ {t} :
    /\ SamePath(t, u) /\ InWindow(t)
    /\ task[u].pc = "pending" /\ task[u].kind \in {"get_model", "unload_model"}

\* ---- properties of the server --------------------------------------------

DifferentModel(t, u) == ~SamePath(t, u)

\* the event loop starts the handler of an inference request
HandlerStart(u) == CreateEmbeddings(u) \/ CreateChatCompletion(u)

\* C9: while a request is constructing the handle of path P, a waiting
\* request that names another path or a model of the other class can be
\* served: its handler can start without waiting for the construction.
C9_OtherRequestsNotStalled ==
  \A t \in Tasks : \A u \in Tasks \ {t} :
    ( /\ task[t].pc = "g_construct"
      /\ task[u].pc = "pending"
      /\ task[u].kind \in {"embeddings", "chat_completion"}
      /\ DifferentModel(t, u) )
    => ENABLED HandlerStart(u)

\* C10: at the moment an executor thread starts the transfer of a download,
\* the DownloadRecord of its filename is in the in-flight table.
C10_RecordPresentAtTransferStart ==
  [][\A t \in Tasks :
       (task[t].wk = "queued" /\ task'[t].wk = "running")
       => FilenameOf(task[t].repo) \in DOMAIN active]_vars

\* ---- properties of the download coordinator and of the listings ---------

\* a listing handler returns in this step
Lists(l) == task[l].pc = "l_read" /\ task'[l].pc = "idle"

\* the downloading entries of a listing
DownloadingNames(models) == {e.name : e \in {m \in models : m.status = "downloading"}}

AllowListed(r) ==
  r \in DOMAIN DOWNLOADABLE_CHAT_MODELS \cup DOMAIN DOWNLOADABLE_EMBEDDING_MODELS

C12_DownloadingUntilComplete ==
  [][\A l \in Tasks :
       Lists(l) =>
         /\ \A u \in Tasks :
              ( /\ task[u].kind = "download" /\ task[u].pc = "dl_wait"
                /\ task[u].out = "none"
                /\ ModelTypeOf(task[u].repo) = task[l].cls
                /\ ~\E m \in task[l].scan :
                      m.name = PathOfFile[FilenameOf(task[u].repo)] )
              => PathOfFile[FilenameOf(task[u].repo)]
                   \in DownloadingNames(last'.models)
         /\ \A m \in task[l].scan :
              m \in last'.models /\ m.name \notin DownloadingNames(last'.models)]_vars

\* C13: if the executor runs the workers and the transfers end, every record
\* that is in the in-flight table is eventually removed from it, after a
\* successful transfer and after a failed one.
C13_RecordEventuallyRemoved ==
  \A g \in DOMAIN PathOfFile :
    (g \in DOMAIN active) ~> (g \notin DOMAIN active)

C13_Witness ==
  \E t \in Tasks :
    /\ task[t].wk = "finished" /\ task[t].out = "raised"
    /\ FilenameOf(task[t].repo) \notin DOMAIN active

\* C14: a download calls the transfer function at most once, and when
\* download_model_async ends it has called it exactly once and ends
\* without raising, also when the transfer raised.
C14_NoRetryNoRaise ==
  [][\A t \in Tasks :
       /\ task'[t].n <= 1
       /\ (task[t].pc = "dl_wait" /\ task'[t].pc = "idle")
          => /\ task[t].n = 1
             /\ last'.kind = "download"
             /\ last'.st = "ok"]_vars

C14_Witness ==
  /\ last.kind = "download"
  /\ last.out = "raised"
  /\ last.st = "ok"
  /\ last.val = 1

\* C15: no listing contains two entries with the same name.
C15_NoDuplicateNames ==
  [][\A l \in Tasks :
       Lists(l) =>
         \A e1 \in last'.models : \A e2 \in last'.models :
           e1.name = e2.name => e1 = e2]_vars

\* C16: when a scanned file and a record of the class read by the listing
\* have the same name, the listing has exactly one entry of that name and it
\* is the ready entry of the file, with its size.
C16_CompletedFileWins ==
  [][\A l \in Tasks :
       Lists(l) =>
         \A g \in DOMAIN active :
           ( /\ active[g].model_type = task[l].cls
             /\ \E m \in task[l].scan : m.name = PathOfFile[g] )
           => \E e \in last'.models :
                /\ {x \in last'.models : x.name = PathOfFile[g]} = {e}
                /\ e \in task[l].scan
                /\ e.status = "ready_to_use"
                /\ e.size = "bytes"]_vars

\* C17: no listing has a ready entry for a name whose filename has a record
\* of the class in the in-flight table when the listing reads the table.
C17_NeverReadyWhileDownloading ==
  [][\A l \in Tasks :
       Lists(l) =>
         \A e \in last'.models :
           e.status = "ready_to_use" =>
             ~\E g \in DOMAIN active :
                 active[g].model_type = task[l].cls /\ PathOfFile[g] = e.name]_vars

\* C18: the download handler's validate_repository accepts exactly the keys
\* of the two tables (the request goes on to 202) and rejects every other
\* identifier (400), and the validation changes no state of the service.
C18_ValidateRepository ==
  [][\A t \in Tasks :
       (Starts(t, "download") /\ task'[t].pc # "pending")
       => /\ AllowListed(task[t].repo)
             => task'[t].pc = "bg_start" /\ last'.status = 202
          /\ ~AllowListed(task[t].repo)
             => task'[t].pc = "idle" /\ last'.status = 400
          /\ active' = active /\ disk' = disk /\ cache' = cache]_vars

C18_Witness ==
  /\ last.kind = "download"
  /\ last.status = 400
  /\ \E t \in Tasks : task[t].pc \in {"bg_start", "dl_wait"}

\* C19: only allow-listed repositories ever have a background task, a
\* record in the in-flight table or a worker that calls hf_hub_download.
C19_OnlyAllowListedFetched ==
  /\ \A t \in Tasks :
       (task[t].pc \in {"bg_start", "dl_wait"} \/ task[t].wk # "none")
       => AllowListed(task[t].repo)
  /\ \A g \in DOMAIN active : AllowListed(active[g].repository)

C19_Witness ==
  /\ last.kind = "download"
  /\ last.status = 400
  /\ \E t \in Tasks : task[t].wk = "running"

\* C20: an embeddings request with encoding_format base64 is answered 400
\* in the first step of its handler, whether or not its model exists, and
\* that step leaves the managers untouched.
C20_Base64RejectedFirst ==
  [][\A t \in Tasks :
       ( /\ Starts(t, "embeddings")
         /\ task[t].fmt = "base64"
         /\ task'[t].pc # "pending" )
       => /\ task'[t].pc = "idle"
          /\ last'.status = 400
          /\ cache' = cache /\ built' = built
          /\ inst' = inst /\ hist' = hist]_vars

C20_Witness ==
  /\ last.kind = "embeddings"
  /\ last.status = 400
  /\ ~embedding_model_exists(last.path)

\* the event loop runs the handler of request t of kind k to its response
Answers(t, k) == Starts(t, k) /\ task'[t].pc = "idle"

\* C21: a chat completion request that names a model without .gguf file in
\* the chat directory is answered 404, and its handler constructs no handle
\* and leaves the caches as they were.
C21_UnknownChatModel404 ==
  [][\A t \in Tasks :
       (Answers(t, "chat_completion") /\ ~chat_model_exists(task[t].path))
       => /\ last'.status = 404
          /\ cache' = cache
          /\ built' = built]_vars

\* C26: the chat completion handler answers 500 only for a request whose
\* model was found (the failure of a later call); the 404 of an unknown
\* model is never turned into a 500.
C26_ChatErrorsNotRewrapped ==
  [][\A t \in Tasks :
       (Answers(t, "chat_completion") /\ last'.status = 500)
       => chat_model_exists(task[t].path)]_vars

\* the model named by request t has a .gguf file in the directory of its
\* class
ModelOnDisk(t) ==
  IF task[t].cls = "chat"
  THEN chat_model_exists(task[t].path)
  ELSE embedding_model_exists(task[t].path)

\* C30: a load request for a model on disk is answered 200 with status
\* already_loaded exactly when its path was in the cache of its class when
\* the handler began and with status loaded otherwise, and the path is in
\* that cache afterwards; for a model that is not on disk the answer is 404
\* and both caches are unchanged.
C30_LoadModelStatus ==
  [][\A t \in Tasks :
       Answers(t, "load") =>
         IF ModelOnDisk(t)
         THEN /\ last'.status = 200
              /\ last'.out = IF is_loaded(task[t].cls, task[t].path)
                             THEN "already_loaded" ELSE "loaded"
              /\ cache'[task[t].cls][task[t].path] # NoHandle
         ELSE /\ last'.status = 404
              /\ cache' = cache]_vars

\* a .gguf file with stem p is somewhere under the directory of class c
InDirectory(c, p) == \E f \in disk[c] : f.stem = p

\* C22: an embeddings request with encoding float that names a model without
\* .gguf file in the embedding directory, also one that has a file in the
\* chat directory, is answered 404; no handle is constructed, the caches
\* are unchanged and neither embed nor tokenize is called.
C22_UnknownEmbeddingModel404 ==
  [][\A t \in Tasks :
       ( /\ Starts(t, "embeddings")
         /\ task'[t].pc # "pending"
         /\ task[t].fmt = "float"
         /\ ~InDirectory("embedding", task[t].path) )
       => /\ task'[t].pc = "idle"
          /\ last'.status = 404
          /\ last'.native = <<>>
          /\ cache' = cache
          /\ built' = built]_vars

C22_Witness ==
  /\ last.kind = "embeddings"
  /\ last.status = 404
  /\ InDirectory("chat", last.path)
  /\ ~InDirectory("embedding", last.path)

\* the handler of embeddings request t ends after its handle was obtained
Embedded(t) ==
  /\ task[t].kind = "embeddings"
  /\ task[t].pc = "using"
  /\ task'[t].pc = "idle"

\* the texts of the native calls of operation op, in the order of the calls
CallsOf(made, op) ==
  LET sel == SelectSeq(made, LAMBDA c : c.op = op)
  IN [i \in 1..Len(sel) |-> sel[i].text]

\* the input of a request as a list: a single string is a list of one text
AsList(input) == IF input.kind = "str" THEN <<input.str>> ELSE input.list

\* C23: a successful embedding request with n input texts (a single string
\* is n = 1) has called embed exactly n times, once per text in input order,
\* and its response holds n entries where entry i has index i and the vector
\* returned for text i.
C23_OneVectorPerText ==
  [][\A t \in Tasks :
       (Embedded(t) /\ last'.status = 200)
       => LET texts == AsList(last'.arg[1]) IN
          /\ CallsOf(last'.native, "embed") = texts
          /\ Len(last'.res) = Len(texts)
          /\ \A i \in 1..Len(texts) :
               /\ last'.res[i].index = i - 1
               /\ last'.res[i].embedding = Vector(texts[i])]_vars

C23_Witness ==
  /\ last.kind = "embeddings"
  /\ last.status = 200
  /\ Len(last.res) = MaxTexts
  /\ \E i \in 1..MaxTexts : \E j \in 1..MaxTexts :
       /\ i < j
       /\ last.arg[1].list[i] = last.arg[1].list[j]
       /\ \E k \in 1..MaxTexts : last.arg[1].list[k] # last.arg[1].list[i]

\* the sum of the lengths of the tokenizations of the texts
RECURSIVE TokenSum(_)
TokenSum(texts) ==
  IF texts = <<>> THEN 0 ELSE Len(Tokens(Head(texts))) + TokenSum(Tail(texts))

\* C24: in every successful embedding response prompt_tokens is the sum of
\* the lengths of the tokenizations of the input texts, tokenize having
\* been called once per text, and total_tokens equals prompt_tokens.
C24_PromptTokensSum ==
  [][\A t \in Tasks :
       (Embedded(t) /\ last'.status = 200)
       => LET texts == AsList(last'.arg[1]) IN
          /\ CallsOf(last'.native, "tokenize") = texts
          /\ last'.usage.prompt_tokens = TokenSum(texts)
          /\ last'.usage.total_tokens = last'.usage.prompt_tokens]_vars

C24_Witness ==
  /\ last.kind = "embeddings"
  /\ last.status = 200
  /\ last.arg[1].kind = "list"
  /\ Len(last.arg[1].list) = 2
  /\ last.usage.prompt_tokens = Len(Tokens("a")) + Len(Tokens("b"))

\* C25: when embed or tokenize raises in the embedding handler, whatever the
\* type of the exception, the request is answered 500 and the response
\* carries no vector and no token count.
C25_NativeFailureIs500 ==
  [][\A t \in Tasks :
       (Embedded(t) /\ last'.st = "error")
       => /\ last'.status = 500
          /\ last'.res = <<>>
          /\ last'.usage.prompt_tokens = 0]_vars

\* the value used for an optional request field: the request's own value
\* when it is supplied, the default otherwise
Supplied(field, default) ==
  IF field # {} THEN CHOOSE v \in field : TRUE ELSE default

\* C28: the handler of a chat request that names a model on disk makes its
\* native call with the request's temperature and max_tokens where the
\* request supplies them (also a temperature of 0.0) and with
\* settings.temperature and settings.max_tokens where it does not.
C28_GenerationParameters ==
  [][\A t \in Tasks :
       (Answers(t, "chat_completion") /\ InDirectory("chat", task[t].path))
       => last'.native =
            << [op |-> "create_chat_completion",
                temperature |->
                  Supplied(last'.arg[1].temperature, settings.temperature),
                max_tokens |->
                  Supplied(last'.arg[1].max_tokens, settings.max_tokens)] >>]_vars

\* parse_model_response returns a response for its argument
Parsed ==
  /\ last.kind = "none"
  /\ last'.kind = "parse_model_response"
  /\ last'.st = "ok"

\* the native tool calls of a message: none when the field is None
NativeToolCalls(message) ==
  IF message.tool_calls = {} THEN <<>>
  ELSE CHOOSE l \in message.tool_calls : TRUE

\* C27: the response of parse_model_response has one choice, made from
\* choice 0 of the native response: k >= 1 native tool calls give k public
\* tool calls in the same order with the same id, type, function name and
\* arguments; no tool call gives tool_calls None; finish_reason and the
\* three usage counts are copied; content is the empty string when the
\* native content is absent.
C27_ParseModelResponse ==
  [][Parsed =>
       LET native == last'.arg[1]
           first == native.choices[1]
           calls0 == NativeToolCalls(first.message)
           public == last'.res[1]
           choice == public.choices[1]
       IN /\ Len(public.choices) = 1
          /\ IF Len(calls0) >= 1
             THEN \E l \in choice.tool_calls :
                    /\ Len(l) = Len(calls0)
                    /\ \A i \in 1..Len(calls0) :
                         /\ l[i].id = calls0[i].id
                         /\ l[i].type = calls0[i].type
                         /\ l[i].function.name = calls0[i].function.name
                         /\ l[i].function.arguments = calls0[i].function.arguments
             ELSE choice.tool_calls = {}
          /\ choice.finish_reason = first.finish_reason
          /\ public.usage.prompt_tokens = native.usage.prompt_tokens
          /\ public.usage.completion_tokens = native.usage.completion_tokens
          /\ public.usage.total_tokens = native.usage.total_tokens
          /\ first.message.content = {} => choice.message.content = ""]_vars

C27_Witness ==
  /\ last.kind = "parse_model_response"
  /\ last.st = "ok"
  /\ Len(last.arg[1].choices) = 2
  /\ Len(NativeToolCalls(last.arg[1].choices[1].message)) = MaxToolCalls
  /\ last.arg[1].choices[1].message.content = {}
  /\ \E l \in last.res[1].choices[1].tool_calls : l[1].id # l[MaxToolCalls].id

\* the dict lacks a field of the internal schema: one of the response's
\* own fields or, in one of its choices, index, message or finish_reason
LacksField(d) ==
  \/ \E k \in {"id", "object", "created", "model", "choices", "usage"} :
       k \notin DOMAIN d
  \/ /\ "choices" \in DOMAIN d
     /\ \E i \in 1..Len(d.choices) :
          \E k \in {"index", "message", "finish_reason"} :
            k \notin DOMAIN d.choices[i]

\* C29: generate_completion fails with an error for a native response that
\* lacks a field of the internal schema, and returns nothing made from the
\* fields that are there.
C29_MalformedNativeResponse ==
  [][( /\ last.kind = "none"
       /\ last'.kind = "generate_completion"
       /\ LacksField(last'.arg[1]) )
     => /\ last'.st = "error"
        /\ last'.res = <<>>]_vars

C29_Witness ==
  /\ last.kind = "generate_completion"
  /\ last.st = "error"
  /\ "choices" \in DOMAIN last.arg[1]
  /\ \E i \in 1..Len(last.arg[1].choices) :
       "finish_reason" \notin DOMAIN last.arg[1].choices[i]

\* C31: an unload request for a model on disk answers "unloaded" exactly
\* when the path was in its class cache, and the path is not cached
\* afterwards; it answers "not_loaded" when the path was not cached and
\* leaves the cache alone; for a name that is not on disk it answers 404
\* and changes no cache.
C31_UnloadModelStatus ==
  [][\A t \in Tasks :
       Answers(t, "unload") =>
         IF ModelOnDisk(t)
         THEN /\ last'.status = 200
              /\ last'.out = IF is_loaded(task[t].cls, task[t].path)
                             THEN "unloaded" ELSE "not_loaded"
              /\ cache'[task[t].cls][task[t].path] = NoHandle
              /\ ~is_loaded(task[t].cls, task[t].path) => cache' = cache
         ELSE /\ last'.status = 404
              /\ cache' = cache]_vars

\* C36: a listing answered after the transfer of a registered download of
\* its class has succeeded (the file is on disk and is not deleted) has an
\* entry, downloading or ready, named after that file.
C36_NeverAbsentFromListing ==
  [][\A l \in Tasks :
       Lists(l) =>
         \A u \in Tasks :
           ( /\ task[u].kind = "download" /\ task[u].pc = "dl_wait"
             /\ task[u].out = "ok"
             /\ ModelTypeOf(task[u].repo) = task[l].cls )
           => \E e \in last'.models :
                e.name = PathOfFile[FilenameOf(task[u].repo)]]_vars

\* C37: the in-flight table holds the record of a filename as long as the
\* transfer of some download of that filename has not ended.
C37_RecordWhileAnyTransferRuns ==
  \A t \in Tasks :
    ( /\ task[t].kind = "download" /\ task[t].pc = "dl_wait"
      /\ task[t].wk \in {"queued", "running"} )
    => FilenameOf(task[t].repo) \in DOMAIN active

\* C38: a request that was given the handle of a path and has not finished
\* with it finds that handle still in the cache: no unload_model (and no
\* reset) removes the handle of a path between the return of get_model and
\* the end of the request that uses it.
C38_HandleStableWhileInUse ==
  \A t \in Tasks :
    task[t].pc = "using" =>
      /\ task[t].h # NoHandle
      /\ cache[task[t].cls][task[t].path] = task[t].h

\* an unload of the path was requested while its handle is in use
C38_Witness ==
  \E t \in Tasks : \E u \in Tasks \ {t} :
    /\ task[t].pc = "using"
    /\ task[u].kind = "unload_model"
    /\ task[u].pc = "pending"
    /\ SamePath(t, u)

\* the holder of the lock is inside one of the `with` blocks: a background
\* task between its acquisition and the registration, a listing between
\* its acquisition and its snapshot, a worker whose transfer has ended
InBlock(holder) ==
  \/ /\ holder.thread = "loop"
     /\ task[holder.task].pc \in {"registering", "l_snapshot"}
  \/ /\ holder.thread = "executor"
     /\ task[holder.task].wk = "popping"

\* C35: the in-flight table is written and is copied by a listing only
\* while the lock is held by the thread that does it; the lock is held by
\* no task that is scanning and by no worker whose transfer has not ended,
\* and a listing that waits for the lock waits for a thread inside a block.
C35_TableUnderLock ==
  [][ /\ active' # active => InBlock(lock)
      /\ \A l \in Tasks :
           (task[l].kind = "list" /\ task[l].pc # "idle" /\ task'[l].pc = "idle")
           => lock = [thread |-> "loop", task |-> l]
      /\ \A l \in Tasks :
           (task[l].pc = "pending" /\ task'[l].pc = "l_read")
           => lock.thread # "loop"
      /\ lock' # Unlocked =>
           \/ /\ lock'.thread = "loop"
              /\ task'[lock'.task].pc \in {"registering", "l_snapshot"}
           \/ /\ lock'.thread = "executor"
              /\ task'[lock'.task].wk = "popping" ]_vars

\* a listing has scanned and waits for the lock, which a worker holds to
\* pop its record
C35_Witness ==
  \E l \in Tasks : \E u \in Tasks \ {l} :
    /\ task[l].pc = "l_read"
    /\ lock = [thread |-> "executor", task |-> u]

\* C34: one call of generate_completion makes exactly one call of the
\* handle's create_chat_completion, whether that call returns or raises;
\* its messages are one dict of role and content per request message, in
\* the order of the request, and its tools are one function entry per
\* request tool, in the order of the request, or None when the request has
\* no tool.
C34_SingleNativeCall ==
  [][(last.kind = "none" /\ last'.kind = "generate_completion") =>
       LET request == last'.arg[2]
           call == last'.native[1]
       IN /\ Len(last'.native) = 1
          /\ call.op = "create_chat_completion"
          /\ Len(call.messages) = Len(request.messages)
          /\ \A i \in 1..Len(request.messages) :
               /\ DOMAIN call.messages[i] = {"role", "content"}
               /\ call.messages[i].role = request.messages[i].role
               /\ call.messages[i].content = request.messages[i].content
          /\ IF request.tools = {} \/ (\E l \in request.tools : l = <<>>)
             THEN call.tools = {}
             ELSE \E l \in request.tools : \E d \in call.tools :
                    /\ Len(d) = Len(l)
                    /\ \A i \in 1..Len(l) :
                         /\ d[i].type = "function"
                         /\ d[i].function.name = l[i].function.name
                         /\ d[i].function.description = l[i].function.description
                         /\ d[i].function.parameters = l[i].function.parameters]_vars

\* the handle raised for a request of two different messages and two
\* different tools
C34_Witness ==
  /\ last.kind = "generate_completion"
  /\ last.st = "error"
  /\ last.arg[1] = Raises
  /\ Len(last.arg[2].messages) = 2
  /\ last.arg[2].messages[1] # last.arg[2].messages[2]
  /\ \E l \in last.arg[2].tools : Len(l) = 2 /\ l[1] # l[2]
  /\ Len(last.native) = 1

\* the number of entries x of a log
Count(log, x) == Cardinality({i \in 1..Len(log) : log[i] = x})

\* C33: _embed_text_by_llm calls the embedding client at most three times
\* for one text; when the endpoint answers the k-th attempt with a vector,
\* the function returns it after exactly k calls and k - 1 sleeps; when
\* all three attempts fail, it raises RuntimeError after three calls and
\* two sleeps, none of them after the third call.
C33_BoundedRetry ==
  [][(last.kind = "none" /\ last'.kind = "_embed_text_by_llm") =>
       LET outcomes == last'.arg[1].outcomes
           answered == {k \in 1..Attempts : outcomes[k] = "vector"}
           log == last'.res
       IN /\ Count(log, "embed_text") <= Attempts
          /\ IF answered # {}
             THEN LET k == CHOOSE i \in answered : \A j \in answered : i <= j
                  IN /\ last'.out = "vector"
                     /\ Count(log, "embed_text") = k
                     /\ Count(log, "sleep") = k - 1
             ELSE /\ last'.out = "RuntimeError"
                  /\ Count(log, "embed_text") = Attempts
                  /\ Count(log, "sleep") = Attempts - 1
                  /\ log[Len(log)] # "sleep"]_vars

\* the execution contexts inside a session_context block
InSession == {t \in Tasks : ask[t].pc # "idle"}

\* C39: the table holds exactly one session for each request that is inside
\* its session_context block, with the document of that request, and no
\* other: a request that left the block, by returning or by raising, left
\* no session behind and removed no session of another request.
C39_SessionsOfRunningRequests ==
  /\ DOMAIN sessions = {ask[t].session_id : t \in InSession}
  /\ \A t \in InSession : \A u \in InSession :
       ask[t].session_id = ask[u].session_id => t = u
  /\ \A t \in InSession :
       sessions[ask[t].session_id].document_name = ask[t].document_name

\* a request left its block by raising while the session of another
\* request stays in the table
C39_Witness ==
  /\ last.kind = "ask"
  /\ last.status = 500
  /\ uuid >= 2
  /\ Cardinality(InSession) = 1
  /\ Cardinality(DOMAIN sessions) = 1

\* C40: in every reachable state get_current_document_name returns, in an
\* execution context that is inside a session_context block for document
\* D, the name D, and raises RuntimeError in a context that is inside no
\* block.
C40_SessionIsolation ==
  \A t \in Tasks :
    get_current_document_name(t) =
      IF t \in InSession
      THEN [raised |-> "none", value |-> ask[t].document_name]
      ELSE [raised |-> "RuntimeError", value |-> ""]

\* the tool was answered inside one of two concurrent sessions for
\* different documents, by the context that entered first
C40_Witness ==
  /\ last.kind = "get_current_document_name"
  /\ last.st = "ok"
  /\ \E t \in InSession : \E u \in InSession :
       /\ last.val = t
       /\ ask[t].session_id < ask[u].session_id
       /\ ask[t].document_name # ask[u].document_name
       /\ last.out = ask[t].document_name

\* C32: a listing reports "ready" only for a document whose analysis
\* thread has finished every stage successfully; a document whose thread
\* is still running or has failed is reported "processing".
C32_ReadyOnlyWhenAnalyzed ==
  [][(last'.kind = "list_documents" /\ data' = data /\ analysis' = analysis)
     => \A e \in last'.models :
          e.status = "ready" => analysis[e.name].pc = "done"]_vars

====
